---- MODULE Spec2Model ----
(***************************************************************************)
(* A model of the data-fusion, caching and rate-limiting core of           *)
(* investment-analyst:                                                     *)
(*   - RateLimiter                (equity_analyst_agent.py)                *)
(*   - AlphaVantageRateLimiter and AlphaVantageClient                      *)
(*                                (alpha_vantage_client.py)                *)
(*   - the securities table, its staleness-aware read path and the        *)
(*     enrichment cycle           (equity_analyst_autonomous.py,           *)
(*                                 portrec/equity_analyst.py,              *)
(*                                 etfdb_scraper.py)                       *)
(* Time is in whole seconds.  clock is UTC (time.time(), SQLite's          *)
(* datetime('now')); datetime.now() is the host's local wall clock, which  *)
(* is utc_offset seconds ahead of it.  The calendar date of a local        *)
(* instant is the number of whole days since the epoch.                    *)
(***************************************************************************)
EXTENDS Integers, Sequences, FiniteSets, TLC

\* ------------------------------------------------------------------ bounds
\* Largest max_calls / calls_per_minute a limiter is constructed with.
MaxPerWindow == 2
\* Largest calls_per_day an AlphaVantageRateLimiter is constructed with.
MaxPerDay == 2
\* Number of limiter calls followed in one run.
MaxCalls == 4
\* Number of explicit clock advances between calls in one run.
MaxTicks == 2
\* Number of store operations (enrichment cycles and ETFDB upserts) followed
\* in one run.
MaxCycles == 3
\* Number of times days pass between store operations in one run.
MaxAdvances == 2

\* ------------------------------------------------------- program constants
\* alpha_vantage_client.py: "cutoff = now - 60", "wait_time = 60 - ... + 1"
MinuteWindow == 60
\* datetime.now().date(): a calendar day is 86400 seconds long
SecondsPerDay == 86400
\* equity_analyst_autonomous.py: STALENESS_DAYS = 7
STALENESS_DAYS == 7

\* The value None / SQL NULL.
NULL == "NULL"

VARIABLES
    clock,            \* time.time(), in seconds
    ticks,            \* number of explicit clock advances so far
    utc_offset,       \* the host's time zone: datetime.now() is clock + utc_offset
    \* ---- RateLimiter (max_calls = 0: no RateLimiter constructed)
    max_calls,
    time_window,
    call_times,
    rl_returned,      \* history: the time at which each wait_if_needed returned
    rl_recorded,      \* history: every timestamp appended to call_times
    rl_last,          \* history: what the last wait_if_needed did
    \* ---- AlphaVantageRateLimiter (calls_per_minute = 0: none constructed)
    calls_per_minute,
    calls_per_day,
    minute_calls,
    daily_calls,
    current_date,
    av_issued,        \* history: the real time each admitted call returned at
    av_last,          \* history: what the last wait_if_needed did
    av_return,        \* history: what get_company_overview returned last
    \* ---- the securities table and the enrichment cycle
    securities,       \* symbol -> row of the securities table, or NoRow
    thesis_alignments,\* the rows of the thesis_alignments table, in insertion order
    cycles,           \* number of store operations so far
    last_cycle,       \* history: the stages of the last enrichment cycle
    last_load,        \* history: the last _load_security_from_db and its answer
    \* ---- pure functions under observation
    last_merge,       \* history: a payload merged into a record once and twice
    last_yield,       \* history: a dividend yield followed from the provider to the row
    last_cap,         \* history: a market capitalization through two cleanup runs
    \* ---- ETF holdings
    etf_holdings,     \* the rows of the etf_holdings table
    last_sync,        \* history: the last save_etf_holdings and its writes
    \* ---- one run of backfill_etf_full.main
    run_pc,           \* "idle", "step1", "step2", "done" or "aborted"
    run_etfs,         \* the ETFs of STEP 1 still to process
    run_constituents, \* the constituents of STEP 2 still to process
    fetched_this_run,
    all_constituents_set,
    fetch_calls,      \* history: symbol -> Yahoo calls made for it by
                      \* _fetch_security_data in this run
    \* ---- background workers
    task_status,      \* pending_research.status of the queued task
    worker_pc,        \* worker -> "poll", "analyze" or "complete"
    worker_todo,      \* worker -> the tickers its analyze_thesis has left
    \* ---- alignment scoring
    last_score,       \* history: the last score_alignment, inputs and sub-scores
    last_scenario     \* history: a security scored against a thesis text, and
                      \* against the same thesis naming its ticker

limiterVars == <<max_calls, time_window, call_times, rl_returned, rl_recorded,
                 rl_last, calls_per_minute, calls_per_day, minute_calls,
                 daily_calls, current_date, av_issued, av_last, av_return>>

storeVars == <<securities, thesis_alignments, cycles, last_cycle, last_load>>

pureVars == <<last_merge, last_yield, last_cap>>

holdingVars == <<etf_holdings, last_sync>>

runVars == <<run_pc, run_etfs, run_constituents, fetched_this_run,
             all_constituents_set, fetch_calls>>

\* The variables outside the limiters, the clock and the securities cycle
workerVars == <<task_status, worker_pc, worker_todo>>

scoreVars == <<last_score, last_scenario>>

extVars == <<pureVars, holdingVars, runVars, workerVars, scoreVars>>

vars == <<clock, ticks, utc_offset, limiterVars, storeVars, extVars>>

\* ---------------------------------------------------------------- helpers
\* while q and q[0] < cutoff: q.popleft()
RECURSIVE PopLeftWhileOld(_, _)
PopLeftWhileOld(q, cutoff) ==
    IF q # <<>> /\ Head(q) < cutoff
    THEN PopLeftWhileOld(Tail(q), cutoff)
    ELSE q

\* datetime.now() at the instant t of the clock
LocalTime(t) == t + utc_offset

\* .date() of the local instant t
DateOf(t) == t \div SecondsPerDay

\* The number of entries of the sequence s with lo <= s[i] <= hi
CountIn(s, lo, hi) == Cardinality({i \in DOMAIN s : lo <= s[i] /\ s[i] <= hi})

NoCall == [called |-> FALSE]

\* time.sleep(t) returns after at least t seconds: how late it may return
Oversleep == {0, 1}

\* ------------------------------------------------------------- RateLimiter
\* sleep_time = self.time_window - (now - self.call_times[0]) + 1
RLSleepTime(W, now, oldest) == W - (now - oldest) + 1

\* self.call_times.append(time.time()): the clock is read again after the sleep
RLRecordedTime_BeforeSleep(now, after) == now
RLRecordedTime(now, after) == after

RLWaitIfNeeded ==
    /\ max_calls > 0
    /\ Len(rl_returned) < MaxCalls
    /\ \E wake_late \in Oversleep :
        LET now      == clock
            pruned   == PopLeftWhileOld(call_times, now - time_window)
            at_limit == Len(pruned) >= max_calls
            sleep_time == IF at_limit THEN RLSleepTime(time_window, now, Head(pruned)) ELSE 0
            sleeps   == at_limit /\ sleep_time > 0
            after    == IF sleeps THEN now + sleep_time + wake_late ELSE now
            cleaned  == IF sleeps THEN PopLeftWhileOld(pruned, after - time_window)
                                  ELSE pruned
            stamp    == RLRecordedTime(now, after)
        IN  /\ (~sleeps => wake_late = 0)
            /\ clock' = after
            /\ call_times' = Append(cleaned, stamp)
            /\ rl_recorded' = Append(rl_recorded, stamp)
            /\ rl_returned' = Append(rl_returned, after)
            /\ rl_last' = [called |-> TRUE, now |-> now, before |-> call_times,
                           at_limit |-> at_limit,
                           oldest |-> IF at_limit THEN Head(pruned) ELSE now,
                           slept |-> IF sleeps THEN <<sleep_time>> ELSE <<>>,
                           raised |-> FALSE, returned_at |-> after,
                           recorded |-> stamp]
    /\ UNCHANGED <<ticks, utc_offset, max_calls, time_window, calls_per_minute, calls_per_day,
                   minute_calls, daily_calls, current_date, av_issued, av_last,
                   av_return>>
    /\ UNCHANGED storeVars
    /\ UNCHANGED extVars

\* ------------------------------------------------- AlphaVantageRateLimiter
\* "if current_date != self.current_date": the daily history is reset on the
\* first call whose calendar date differs from the stored one
AVNewDay_Rolling24h(now, date, stored_date, daily) ==
    daily # <<>> /\ now - Head(daily) >= SecondsPerDay
AVNewDay(now, date, stored_date, daily) == date # stored_date

\* wait_time = 60 - (now - oldest_call) + 1
AVWaitTime_NoMargin(now, oldest) == MinuteWindow - (now - oldest)
AVWaitTime(now, oldest) == MinuteWindow - (now - oldest) + 1

\* "if len(self.daily_calls) >= self.calls_per_day: raise"
AVDailyLimitReached(daily, per_day) == Len(daily) >= per_day

\* The responses of the upstream service to one admitted request:
\*   overview  - a JSON object with a 'Symbol' key
\*   empty     - a JSON object without 'Symbol' (no data for the ticker)
\*   error     - a transport error, an 'Error Message' or a 'Note' reply,
\*               raised by _make_request
UpstreamResponses == {"overview", "empty", "error"}

\* AlphaVantageRateLimiter.wait_if_needed at clock time now; wake_late is
\* how late time.sleep returns.  The result holds the limiter's fields after
\* the call, whether it raised, and when it returned.
AVWait(now, wake_late) ==
    LET date      == DateOf(LocalTime(now))
        new_day   == AVNewDay(now, date, current_date, daily_calls)
        daily     == IF new_day THEN <<>> ELSE daily_calls
        stored    == IF new_day THEN date ELSE current_date
        exhausted == AVDailyLimitReached(daily, calls_per_day)
        pruned    == PopLeftWhileOld(minute_calls, now - MinuteWindow)
        at_limit  == Len(pruned) >= calls_per_minute
        wait_time == IF at_limit THEN AVWaitTime(now, Head(pruned)) ELSE 0
        after     == IF at_limit THEN now + wait_time + wake_late ELSE now
        cleaned   == IF at_limit THEN PopLeftWhileOld(pruned, after - MinuteWindow)
                                 ELSE pruned
    IN  IF exhausted
        THEN [raised |-> TRUE, minute_calls |-> minute_calls, daily_calls |-> daily,
              current_date |-> stored, returned_at |-> now, new_day |-> new_day,
              at_limit |-> FALSE, oldest |-> now, slept |-> <<>>]
        ELSE [raised |-> FALSE, minute_calls |-> Append(cleaned, now),
              daily_calls |-> Append(daily, now),
              current_date |-> stored, returned_at |-> after, new_day |-> new_day,
              at_limit |-> at_limit,
              oldest |-> IF at_limit THEN Head(pruned) ELSE now,
              slept |-> IF at_limit THEN <<wait_time>> ELSE <<>>]

\* What get_company_overview hands to its caller: the overview, or None.  The
\* try/except around _make_request turns every exception into None.
OverviewResult(raised, resp) ==
    IF ~raised /\ resp = "overview" THEN "overview" ELSE "None"

\* AlphaVantageClient.get_company_overview -> _make_request ->
\* rate_limiter.wait_if_needed -> the HTTP request
AVGetCompanyOverview ==
    /\ calls_per_minute > 0
    /\ Len(av_issued) < MaxCalls
    /\ \E wake_late \in Oversleep, resp \in UpstreamResponses :
        LET now == clock
            w   == AVWait(now, wake_late)
        IN  /\ (~w.at_limit => wake_late = 0)
            /\ (w.raised => resp = "error")
            /\ clock' = w.returned_at
            /\ minute_calls' = w.minute_calls
            /\ daily_calls' = w.daily_calls
            /\ current_date' = w.current_date
            /\ av_issued' = IF w.raised THEN av_issued
                            ELSE Append(av_issued, w.returned_at)
            /\ av_last' = [called |-> TRUE, now |-> now, date |-> DateOf(LocalTime(now)),
                           stored_date |-> current_date,
                           daily_before |-> daily_calls,
                           daily_seen |-> IF w.new_day THEN <<>> ELSE daily_calls,
                           minute_before |-> minute_calls,
                           new_day |-> w.new_day, raised |-> w.raised,
                           at_limit |-> w.at_limit, oldest |-> w.oldest,
                           slept |-> w.slept, returned_at |-> w.returned_at,
                           recorded |-> ~w.raised]
            /\ av_return' = OverviewResult(w.raised, resp)
    /\ UNCHANGED <<ticks, utc_offset, max_calls, time_window, call_times, rl_returned,
                   rl_recorded, rl_last, calls_per_minute, calls_per_day>>
    /\ UNCHANGED storeVars
    /\ UNCHANGED extVars

\* ------------------------------------------------------------------ clock
\* Time passing between two calls of the serialized call site.
TickSteps == {1, 30}

Tick ==
    /\ ticks < MaxTicks
    /\ \E d \in TickSteps : clock' = clock + d
    /\ ticks' = ticks + 1
    /\ UNCHANGED utc_offset
    /\ UNCHANGED limiterVars
    /\ UNCHANGED storeVars
    /\ UNCHANGED extVars

\* ------------------------------------------------------- securities table
\* The tickers followed by the enrichment cycles.
Tickers == {"AAA"}

\* The ETFs in the securities table (ORDER BY symbol) and the symbols their
\* holdings may name; EE2 is an ETF and may be a holding of EE1.
EtfList == <<"EE1", "EE2">>
Constituents == {"CC1", "CC2", "EE2"}

\* Every symbol that may have a securities row
Symbols == Tickers \cup {EtfList[i] : i \in DOMAIN EtfList} \cup Constituents

NoRow == [exists |-> FALSE]

\* No database is attached to a run that only exercises a limiter.
EmptyStore ==
    /\ securities = [t \in Symbols |-> NoRow]
    /\ thesis_alignments = <<>>
    /\ cycles = 0
    /\ last_cycle = NoCall
    /\ last_load = NoCall

\* Nothing outside the limiters and the securities cycle has run.
IdleRun ==
    /\ run_pc = "idle"
    /\ run_etfs = <<>>
    /\ run_constituents = <<>>
    /\ fetched_this_run = {}
    /\ all_constituents_set = {}
    /\ fetch_calls = [t \in Symbols |-> 0]

\* The worker processes of a deployment
Workers == {"w1", "w2"}

\* No task is queued and every worker is at the top of its loop.
IdleWorkers ==
    /\ task_status = "none"
    /\ worker_pc = [w \in Workers |-> "poll"]
    /\ worker_todo = [w \in Workers |-> <<>>]

IdleExt ==
    /\ last_merge = NoCall
    /\ last_yield = NoCall
    /\ last_cap = NoCall
    /\ etf_holdings = {}
    /\ last_sync = NoCall
    /\ IdleRun
    /\ IdleWorkers
    /\ last_score = NoCall
    /\ last_scenario = NoCall


\* ---- values
\* Text columns hold NULL, the empty string, or a value named after the
\* provider it came from ("Y" Yahoo, "M" Massive/Polygon, "A" Alpha Vantage,
\* "E" ETFDB).  Numeric columns hold NoNum (None) or a tuple: a price or a
\* year performance is <<provider, time obtained>>, a dividend yield is
\* <<hundred-thousandths>> (0.025 is <<2500>>, 2.5 is <<250000>>), a market capitalization
\* is <<thousands of dollars>>.
NoNum == <<>>

\* Python truthiness of a text value: None and '' are falsy
Falsy(v) == v = NULL \/ v = ""

\* a or b
PyOr(a, b) == IF Falsy(a) THEN b ELSE a

\* str.upper() on the values used here
Upper(v) == CASE v = "usd" -> "USD"
              [] v = "equity" -> "EQUITY"
              [] v = "cc1" -> "CC1"
              [] OTHER -> v

\* _normalize_currency / _normalize_exchange: None or blank -> None, else upper
NormalizeCurrency(v) == IF Falsy(v) THEN NULL ELSE Upper(v)

\* _normalize_dividend_yield: 0 < v < 0.1 is taken for a fraction and scaled
NormalizeDividendYield(v) ==
    IF v = NoNum THEN NoNum
    ELSE IF 0 < v[1] /\ v[1] < 10000 THEN <<v[1] * 100>> ELSE v

\* _derived_sector: gics_sector or asset_class
DerivedSector(gics_sector, asset_class) == PyOr(gics_sector, asset_class)

\* ---- timestamps
\* The text of a last_updated column: its format and the instant it was
\* written for.  "full" is 'YYYY-MM-DD HH:MM:SS' (SQLite datetime('now')),
\* "iso" is 'YYYY-MM-DDTHH:MM:SS.ffffff', "date" is 'YYYY-MM-DD', "bad" is any
\* other text, "empty" is '' and "null" is NULL.
Stamp(fmt, t) == [fmt |-> fmt, t |-> t]

\* SQLite's datetime('now'): the UTC time as 'YYYY-MM-DD HH:MM:SS'
SqlNow(now) == Stamp("full", now)

\* strip().replace("T", " ")[:19], strptime with '%Y-%m-%d %H:%M:%S', then
\* strptime of the first 10 characters with '%Y-%m-%d'; <<>> when neither parses
ParseLastUpdated(ts) ==
    CASE ts.fmt \in {"full", "iso"} -> <<ts.t>>
      [] ts.fmt = "date" -> <<(ts.t \div SecondsPerDay) * SecondsPerDay>>
      [] OTHER -> <<>>

\* datetime.now() - last_updated > timedelta(days=STALENESS_DAYS): the
\* stored text is read as a naive datetime and compared with the local clock
IsStale(now, last_updated) ==
    LocalTime(now) - last_updated > STALENESS_DAYS * SecondsPerDay

\* ---- records
NoSecurity == [found |-> FALSE]

\* A security dict; a key the dict does not hold reads as None
Security(symbol, name, market_cap, sector, industry, gics_sector, gics_industry, sic_code, sic_description, asset_class, description, currency, current_price, dividend_yield, year_performance) ==
    [found |-> TRUE, symbol |-> symbol, name |-> name, market_cap |-> market_cap,
     sector |-> sector, industry |-> industry, gics_sector |-> gics_sector,
     gics_industry |-> gics_industry, sic_code |-> sic_code,
     sic_description |-> sic_description, asset_class |-> asset_class,
     description |-> description, currency |-> currency,
     current_price |-> current_price, dividend_yield |-> dividend_yield,
     year_performance |-> year_performance]

\* The columns of a securities row that hold text / numbers
TextColumns == {"name", "sector", "industry", "gics_sector", "gics_industry",
                "sic_code", "sic_description", "asset_class", "description",
                "currency"}
NumColumns == {"market_cap", "current_price", "dividend_yield", "year_performance"}

\* ---- the cache read
\* the "not last_updated_str" test: NULL and '' read as absent
LastUpdatedMissing(ts) == ts.fmt \in {"null", "empty"}

\* the "current_price is None and year_performance is None" test
NoPriceData(row) == row.current_price = NoNum /\ row.year_performance = NoNum

\* AutonomousEquityAnalyst._load_security_from_db
LoadSecurityFromDb(row, symbol, now) ==
    IF ~row.exists THEN NoSecurity
    ELSE IF LastUpdatedMissing(row.last_updated) THEN NoSecurity
    ELSE LET last_updated == ParseLastUpdated(row.last_updated)
         IN  IF last_updated = <<>> THEN NoSecurity
             ELSE IF IsStale(now, last_updated[1]) THEN NoSecurity
             ELSE IF NoPriceData(row) THEN NoSecurity
             ELSE Security(symbol, PyOr(row.name, symbol), row.market_cap,
                           row.sector, row.industry, NULL, NULL, NULL, NULL, NULL,
                           PyOr(row.description, ""), PyOr(row.currency, "USD"),
                           row.current_price, row.dividend_yield,
                           row.year_performance)

\* ---- the primary provider
\* yf.Ticker(ticker).info and .history: NoInfo stands for an exception or an
\* info without 'symbol'
NoInfo == [ok |-> FALSE]
YahooInfos ==
    { NoInfo,
      [ok |-> TRUE, sector |-> "Y", industry |-> "Y", summary |-> "Y",
       currency |-> "usd", price |-> TRUE, history |-> TRUE,
       marketCap |-> <<4000000>>, dividendYield |-> <<2500>>],
      [ok |-> TRUE, sector |-> NULL, industry |-> NULL, summary |-> "",
       currency |-> NULL, price |-> FALSE, history |-> TRUE,
       marketCap |-> NoNum, dividendYield |-> NoNum] }

\* the yfinance branch of _fetch_security_data
FetchFromYahoo_EmptyRecord(symbol, info, now) ==
    Security(symbol, symbol, NoNum, NULL, NULL, NULL, NULL, NULL, NULL, NULL, "",
             "USD", NoNum, NoNum, NoNum)
FetchFromYahoo(symbol, info, now) ==
    IF ~info.ok THEN NoSecurity
    ELSE Security(symbol, "Y", info.marketCap,
                  DerivedSector(info.sector, NULL), info.industry,
                  info.sector, info.industry, NULL, NULL, NULL,
                  info.summary, PyOr(NormalizeCurrency(info.currency), "USD"),
                  IF info.price THEN <<"Y", now>> ELSE NoNum,
                  NormalizeDividendYield(info.dividendYield),
                  IF info.history THEN <<"Y", now>> ELSE NoNum)

\* AutonomousEquityAnalyst._fetch_security_data
FetchSecurityData(row, symbol, info, now) ==
    LET cached == LoadSecurityFromDb(row, symbol, now)
    IN  IF cached.found THEN cached ELSE FetchFromYahoo(symbol, info, now)


\* ---- the secondary providers
\* MassiveAPIClient.get_ticker_details: NoDetails stands for no client or no
\* data ({}), DetailsError for a call that raises
NoDetails == [ok |-> FALSE, raised |-> FALSE]
DetailsError == [ok |-> FALSE, raised |-> TRUE]
MassiveDetails ==
    { NoDetails, DetailsError,
      [ok |-> TRUE, raised |-> FALSE,
       sic_code |-> "M", sic_description |-> "M", description |-> "M"] }

\* "except Exception: pass" followed by "return security"
ProviderFailed_DropsDescription(security) == [security EXCEPT !.description = ""]
ProviderFailed(security) == security

\* _enrich_with_massive with the sector fallback decided on the record as it
\* was before the merge
EnrichWithMassive_StaleFallback(security, details) ==
    IF ~details.ok THEN security
    ELSE [security EXCEPT
            !.sic_code = IF Falsy(@) /\ ~Falsy(details.sic_code)
                         THEN details.sic_code ELSE @,
            !.sic_description = IF Falsy(@) /\ ~Falsy(details.sic_description)
                                THEN details.sic_description ELSE @,
            !.sector = IF ~Falsy(security.sic_description) /\ Falsy(@)
                       THEN security.sic_description ELSE @,
            !.description = IF Falsy(@) /\ ~Falsy(details.description)
                            THEN details.description ELSE @]

\* MultiSourceEquityAnalyst._enrich_with_massive
EnrichWithMassive(security, details) ==
    IF details.raised THEN ProviderFailed(security)
    ELSE IF ~details.ok THEN security
    ELSE LET s1 == IF Falsy(security.sic_code) /\ ~Falsy(details.sic_code)
                   THEN [security EXCEPT !.sic_code = details.sic_code]
                   ELSE security
             s2 == IF Falsy(s1.sic_description) /\ ~Falsy(details.sic_description)
                   THEN [s1 EXCEPT !.sic_description = details.sic_description,
                                   !.sector = IF Falsy(s1.sector)
                                              THEN details.sic_description
                                              ELSE s1.sector]
                   ELSE s1
         IN  IF Falsy(s2.description) /\ ~Falsy(details.description)
             THEN [s2 EXCEPT !.description = details.description]
             ELSE s2

\* AlphaVantageClient.get_company_overview as the enrichment sees it: NoOverview
\* stands for no client and for the None that covers no data and every error
\* caught inside the client, OverviewError for a call that raises.
\* DividendYield is text: a number, 'None', or missing
NoOverview == [ok |-> FALSE, raised |-> FALSE]
OverviewError == [ok |-> FALSE, raised |-> TRUE]
AVOverviews ==
    { NoOverview, OverviewError,
      [ok |-> TRUE, raised |-> FALSE, Sector |-> "A", Industry |-> "A", Description |-> "A",
       DividendYield |-> [kind |-> "number", v |-> 1500]],
      [ok |-> TRUE, raised |-> FALSE, Sector |-> NULL, Industry |-> "A", Description |-> NULL,
       DividendYield |-> [kind |-> "text", v |-> 0]] }

\* "not security.get('dividend_yield')": None and 0.0 are falsy
NoDividend(v) == v = NoNum \/ v[1] = 0

\* MultiSourceEquityAnalyst._enrich_with_alpha_vantage
EnrichWithAlphaVantage(security, overview) ==
    IF overview.raised THEN ProviderFailed(security)
    ELSE IF ~overview.ok THEN security
    ELSE LET s1 == IF Falsy(security.gics_sector) /\ ~Falsy(overview.Sector)
                   THEN [security EXCEPT !.gics_sector = overview.Sector,
                                         !.sector = overview.Sector]
                   ELSE security
             s2 == IF Falsy(s1.gics_industry) /\ ~Falsy(overview.Industry)
                   THEN [s1 EXCEPT !.gics_industry = overview.Industry,
                                   !.industry = overview.Industry]
                   ELSE s1
             s3 == IF Falsy(s2.description) /\ ~Falsy(overview.Description)
                   THEN [s2 EXCEPT !.description = overview.Description]
                   ELSE s2
             dy == overview.DividendYield
         IN  IF NoDividend(s3.dividend_yield) /\ dy.kind = "number"
             THEN [s3 EXCEPT !.dividend_yield =
                       IF 0 < dy.v /\ dy.v < 10000 THEN <<dy.v * 100>> ELSE <<dy.v>>]
             ELSE s3

\* ---- writers
\* A row of the securities table with every column given
Row(name, market_cap, sector, industry, gics_sector, gics_industry, sic_code, sic_description, asset_class, description, currency, current_price, dividend_yield, year_performance, last_updated) ==
    [exists |-> TRUE, name |-> name, market_cap |-> market_cap,
     sector |-> sector, industry |-> industry, gics_sector |-> gics_sector,
     gics_industry |-> gics_industry, sic_code |-> sic_code,
     sic_description |-> sic_description, asset_class |-> asset_class,
     description |-> description, currency |-> currency,
     current_price |-> current_price, dividend_yield |-> dividend_yield,
     year_performance |-> year_performance, last_updated |-> last_updated]

\* AutonomousEquityAnalyst.save_security: INSERT OR REPLACE of every column,
\* last_updated = datetime('now')
SaveSecurity(security, now) ==
    Row(security.name, security.market_cap,
        PyOr(security.sector,
             DerivedSector(security.gics_sector, security.asset_class)),
        PyOr(security.industry, security.gics_industry),
        security.gics_sector, security.gics_industry, security.sic_code,
        security.sic_description, security.asset_class, security.description,
        PyOr(NormalizeCurrency(security.currency), "USD"),
        security.current_price,
        NormalizeDividendYield(security.dividend_yield),
        security.year_performance, SqlNow(now))

\* etfdb_scraper._parse_assets: a plain number is in millions of dollars, a
\* K/M/B suffix scales by 1e3/1e6/1e9; the result is in thousands of dollars
ParseAssets(a) ==
    CASE a.kind = "number" /\ a.suffix = ""  -> <<a.n * 1000>>
      [] a.kind = "number" /\ a.suffix = "K" -> <<a.n>>
      [] a.kind = "number" /\ a.suffix = "M" -> <<a.n * 1000>>
      [] a.kind = "number" /\ a.suffix = "B" -> <<a.n * 1000000>>
      [] OTHER -> NoNum

\* The items of an ETFDB screener page
EtfdbItems ==
    { [name |-> "E", asset_class |-> "equity",
       assets |-> [kind |-> "number", n |-> 3079, suffix |-> ""], ytd |-> TRUE],
      [name |-> NULL, asset_class |-> NULL,
       assets |-> [kind |-> "na", n |-> 0, suffix |-> ""], ytd |-> FALSE] }

\* etfdb_scraper.parse_api_row
ParseApiRow(symbol, item, now) ==
    LET ac == IF Falsy(item.asset_class) THEN NULL ELSE Upper(item.asset_class)
    IN  Security(symbol, PyOr(item.name, NULL), ParseAssets(item.assets), ac, NULL, NULL,
                 NULL, NULL, NULL, ac, NULL, "USD", NoNum, NoNum,
                 IF item.ytd THEN <<"E", now>> ELSE NoNum)

\* COALESCE(excluded.column, column) for a text and for a numeric column
CoalesceText(excluded, stored) == IF excluded = NULL THEN stored ELSE excluded
CoalesceNum(excluded, stored) == IF excluded = NoNum THEN stored ELSE excluded

\* etfdb_scraper.save_to_securities for one scraped row: INSERT ... ON
\* CONFLICT(symbol) DO UPDATE SET column = COALESCE(excluded.column, column),
\* last_updated = datetime('now')
SaveToSecurities(row, s, now) ==
    LET new == Row(s.name, s.market_cap, s.sector, s.industry, s.gics_sector,
                   s.gics_industry, s.sic_code, s.sic_description, s.asset_class,
                   s.description, Upper(PyOr(s.currency, "USD")), s.current_price,
                   s.dividend_yield, s.year_performance, SqlNow(now))
    IN  IF ~row.exists THEN new
        ELSE [c \in DOMAIN new |->
                 IF c \in TextColumns THEN CoalesceText(new[c], row[c])
                 ELSE IF c \in NumColumns THEN CoalesceNum(new[c], row[c])
                 ELSE new[c]]


\* ---- ETF holdings
\* str.strip() on the values used here
Strip(v) == IF v = " " THEN "" ELSE v

\* fund.top_holdings as yfinance may return it: rows of (symbol, Name,
\* Holding Percent), the percent a fraction in hundredths; NoFrame stands for
\* no funds data, an empty frame or a call that raises
NoFrame == <<>>
HoldingFrames ==
    { NoFrame,
      << [symbol |-> "CC1", name |-> "Y", pct |-> 7],
         [symbol |-> "EE2", name |-> "Y", pct |-> 5] >>,
      << [symbol |-> " ", name |-> "", pct |-> 9],
         [symbol |-> "cc1", name |-> "", pct |-> 4] >>,
      << [symbol |-> "CC2", name |-> "Y", pct |-> 6] >> }

\* AutonomousEquityAnalyst.fetch_etf_holdings: rank is the position of the row
\* in the frame, a row without a symbol is left out, <<>> stands for None
FetchEtfHoldings(df) ==
    LET symbol_str(r) == IF r.symbol = "" THEN "" ELSE Upper(Strip(r.symbol))
        holding(rank) ==
            [symbol |-> symbol_str(df[rank]),
             name |-> IF df[rank].name = "" THEN symbol_str(df[rank])
                      ELSE Strip(df[rank].name),
             holding_percent |-> df[rank].pct * 100,
             holding_rank |-> rank]
    IN  SelectSeq([rank \in 1..Len(df) |-> holding(rank)],
                  LAMBDA h : h.symbol # "")

\* The minimal securities row of save_etf_holdings: symbol, name and
\* last_updated, every other column NULL
PlaceholderRow(name, now) ==
    Row(name, NoNum, NULL, NULL, NULL, NULL, NULL, NULL, NULL, NULL, NULL,
        NoNum, NoNum, NoNum, SqlNow(now))

\* save_etf_holdings, "Ensure constituent exists in securities": SELECT 1,
\* then INSERT OR IGNORE when there is no row
EnsureConstituent_Replace(table, const_sym, name, now) ==
    [table EXCEPT ![const_sym] = PlaceholderRow(name, now)]
EnsureConstituent(table, const_sym, name, now) ==
    IF table[const_sym].exists THEN table
    ELSE [table EXCEPT ![const_sym] = PlaceholderRow(name, now)]

\* INSERT OR REPLACE INTO etf_holdings on the key (etf_symbol,
\* constituent_symbol)
UpsertHolding(table, row) ==
    { r \in table : ~(r.etf_symbol = row.etf_symbol
                      /\ r.constituent_symbol = row.constituent_symbol) }
    \cup {row}

\* The loop of save_etf_holdings from holding i on; st holds both tables and
\* the log of the statements executed
RECURSIVE SaveEtfHoldingsFrom(_, _, _, _, _)
SaveEtfHoldingsFrom(st, etf_sym, holdings, i, now) ==
    IF i > Len(holdings) THEN st
    ELSE LET h == holdings[i]
             const_sym == Upper(Strip(h.symbol))
             name == Strip(PyOr(h.name, const_sym))
             ensured == EnsureConstituent(st.securities, const_sym, name, now)
             row == [etf_symbol |-> etf_sym, constituent_symbol |-> const_sym,
                     holding_percent |-> h.holding_percent,
                     holding_rank |-> h.holding_rank, source |-> "yahoo",
                     last_updated |-> SqlNow(now)]
             placeholder == IF st.securities[const_sym].exists THEN <<>>
                            ELSE << [table |-> "securities",
                                     symbol |-> const_sym,
                                     has_row |-> ensured[const_sym].exists] >>
         IN  IF const_sym = ""
             THEN SaveEtfHoldingsFrom(st, etf_sym, holdings, i + 1, now)
             ELSE SaveEtfHoldingsFrom(
                      [securities |-> ensured,
                       etf_holdings |-> UpsertHolding(st.etf_holdings, row),
                       log |-> st.log \o placeholder
                                \o << [table |-> "etf_holdings",
                                       symbol |-> const_sym,
                                       has_row |-> ensured[const_sym].exists] >>],
                      etf_sym, holdings, i + 1, now)

\* AutonomousEquityAnalyst.save_etf_holdings
SaveEtfHoldings(table, holdings_table, etf_symbol, holdings, now) ==
    SaveEtfHoldingsFrom([securities |-> table, etf_holdings |-> holdings_table,
                         log |-> <<>>],
                        Upper(etf_symbol), holdings, 1, now)

\* ---- thesis alignments
\* The thesis under analysis (thesis.get("id"))
ThesisId == 1

\* AutonomousEquityAnalyst.save_thesis_alignment: a plain INSERT into a table
\* whose only key is the AUTOINCREMENT id, here the position in the sequence.
\* A row is followed by its thesis_id, symbol and analysis_date (DEFAULT
\* CURRENT_TIMESTAMP); the score, rationale and price snapshot columns are a
\* function of the security scored at that time.
SaveThesisAlignment(alignments, thesis_id, security, now) ==
    Append(alignments,
           [thesis_id |-> thesis_id, symbol |-> security.symbol,
            analysis_date |-> now])

\* ---- store operations
\* One pass of the loop body of MultiSourceEquityAnalyst.analyze_thesis for
\* ticker t: _fetch_security_data, "if not security: continue",
\* _enrich_with_massive, _enrich_with_alpha_vantage, save_security,
\* save_thesis_alignment.  The
\* outcome of each provider call is drawn from its payload set; Yahoo is only
\* consulted when the cache does not answer.
AnalyzeTicker(t) ==
    /\ \E info \in YahooInfos, details \in MassiveDetails, overview \in AVOverviews :
        LET now           == clock
            row           == securities[t]
            cached        == LoadSecurityFromDb(row, t, now)
            fetched       == FetchSecurityData(row, t, info, now)
            after_massive == EnrichWithMassive(fetched, details)
            after_av      == EnrichWithAlphaVantage(after_massive, overview)
        IN  /\ (cached.found => info = NoInfo)
            /\ (~fetched.found => details = NoDetails /\ overview = NoOverview)
            /\ IF fetched.found
               THEN /\ securities' = [securities EXCEPT ![t] = SaveSecurity(after_av, now)]
                    /\ thesis_alignments' = SaveThesisAlignment(thesis_alignments, ThesisId,
                                                              after_av, now)
                    /\ last_cycle' = [called |-> TRUE, ticker |-> t, at |-> now,
                                      found |-> TRUE, from_cache |-> cached.found,
                                      yahoo_failed |-> ~cached.found /\ ~info.ok,
                                      fetched |-> fetched,
                                      massive_failed |-> ~details.ok,
                                      after_massive |-> after_massive,
                                      av_failed |-> ~overview.ok,
                                      after_av |-> after_av,
                                      row_after |-> securities'[t],
                                      aligned |-> Len(thesis_alignments')
                                                    - Len(thesis_alignments)]
               ELSE /\ securities' = securities
                    /\ thesis_alignments' = thesis_alignments
                    /\ last_cycle' = [called |-> TRUE, ticker |-> t, at |-> now,
                                      found |-> FALSE, from_cache |-> FALSE,
                                      yahoo_failed |-> ~cached.found /\ ~info.ok,
                                      fetched |-> NoSecurity,
                                      massive_failed |-> FALSE,
                                      after_massive |-> NoSecurity,
                                      av_failed |-> FALSE,
                                      after_av |-> NoSecurity,
                                      row_before |-> row,
                                      row_after |-> securities'[t],
                                      aligned |-> Len(thesis_alignments')
                                                    - Len(thesis_alignments)]

\* analyze_thesis on a thesis whose discovery returns ticker t
EnrichAndSave(t) ==
    /\ cycles < MaxCycles
    /\ AnalyzeTicker(t)
    /\ cycles' = cycles + 1
    /\ UNCHANGED <<clock, ticks, utc_offset, last_load>>
    /\ UNCHANGED limiterVars
    /\ UNCHANGED extVars

\* etfdb_scraper: parse_api_row on one item of a page, then save_to_securities
EtfdbUpsert(t) ==
    /\ cycles < MaxCycles
    /\ \E item \in EtfdbItems :
        securities' = [securities EXCEPT
                          ![t] = SaveToSecurities(securities[t],
                                                  ParseApiRow(t, item, clock), clock)]
    /\ cycles' = cycles + 1
    /\ UNCHANGED <<clock, ticks, utc_offset, thesis_alignments, last_cycle, last_load>>
    /\ UNCHANGED limiterVars
    /\ UNCHANGED extVars

\* ---- AlignmentScorer (equity_analyst_agent.py)
\* Scores are in hundredths of a point: 2.0 points is 200.
\* round(a / b) for a >= 0 and b > 0
RoundDiv(a, b) == (2 * a + b) \div (2 * b)

\* "if self._mentioned_in_thesis(security, thesis): score += 2.0"
MentionScore(mentioned) == IF mentioned THEN 200 ELSE 0

\* _score_business_description: d.present is a non-empty description,
\* d.keywords the number of keywords the thesis text selects, d.matches how
\* many of them occur in the description
BusinessScore_ZeroWithoutDescription(d) ==
    IF ~d.present THEN 0 ELSE 50
BusinessScore(d) ==
    IF ~d.present THEN 50
    ELSE IF d.keywords = 0 THEN 50
    ELSE IF d.matches * 100 >= 40 * d.keywords THEN 300
    ELSE IF d.matches * 100 >= 25 * d.keywords THEN 250
    ELSE IF d.matches * 100 >= 15 * d.keywords THEN 200
    ELSE IF d.matches * 100 >= 8 * d.keywords THEN 150
    ELSE IF d.matches * 100 >= 4 * d.keywords THEN 100
    ELSE 50

\* _estimate_revenue_exposure: without a primary theme (1.0, 20.0), else the
\* exposure percentage the theme's rules assign, converted to 0.5..3 points
RevenueScore_Percent(r) == r.exposure_pct * 100
RevenueScore(r) ==
    IF ~r.theme THEN 100
    ELSE IF r.exposure_pct >= 90 THEN 300
    ELSE IF r.exposure_pct >= 70 THEN 250
    ELSE IF r.exposure_pct >= 50 THEN 200
    ELSE IF r.exposure_pct >= 30 THEN 150
    ELSE IF r.exposure_pct >= 10 THEN 100
    ELSE 50

\* _score_sector_alignment: how the sector or industry matches the lists of
\* the thesis theme
SectorMatches == {"no_theme", "perfect", "good", "related", "none"}
SectorScore(m) ==
    CASE m = "no_theme" -> 100
      [] m = "perfect"  -> 200
      [] m = "good"     -> 150
      [] m = "related"  -> 100
      [] OTHER          -> 30

\* _calculate_momentum_score on the answer of get_stock_historical_prices:
\* "none" is None, "error" an answer the code raises on, "short" fewer than 50
\* rows; a series is followed by its length, its last close, max(prices),
\* min(prices), the mean of the last 50 closes and the mean of all closes
MomentumScore(h) ==
    IF h.kind # "series" THEN 0
    ELSE IF h.high - h.low = 0 THEN 0
    ELSE LET position_score == RoundDiv((h.last - h.low) * 100, h.high - h.low)
             trend_score ==
                 IF h.len >= 200
                 THEN IF h.avg_50d * 100 > h.avg_200d * 102 THEN 100
                      ELSE IF h.avg_50d > h.avg_200d THEN 75
                      ELSE IF h.avg_50d * 100 > h.avg_200d * 98 THEN 50
                      ELSE 25
                 ELSE 50
         IN  position_score + trend_score

\* _score_dividend_quality on the answer of get_stock_dividend: "none" is
\* None or no 'dividends', "error" an answer the code raises on; data is
\* followed by dividend_yield in 1/10000, the number of payments and the
\* oldest and newest payment
DividendScore(is_income_thesis, v) ==
    IF ~is_income_thesis THEN 0
    ELSE IF v.kind # "data" THEN 0
    ELSE LET yield_score ==
                 IF v.dividend_yield > 400 THEN 100
                 ELSE IF v.dividend_yield > 300 THEN 75
                 ELSE IF v.dividend_yield > 200 THEN 50
                 ELSE IF v.dividend_yield > 0 THEN 25
                 ELSE 0
             growth_score ==
                 IF v.count >= 8
                 THEN IF v.oldest > 0
                      THEN IF (v.newest - v.oldest) * 100 > 10 * v.oldest THEN 100
                           ELSE IF (v.newest - v.oldest) * 100 > 5 * v.oldest THEN 75
                           ELSE IF v.newest - v.oldest > 0 THEN 50
                           ELSE 0
                      ELSE 0
                 ELSE 0
         IN  yield_score + growth_score

\* "max_possible_score = 14.0"
MaxPossibleScore == 1400

\* AlignmentScorer.score_alignment: the sum of the sub-scores, factors 5 and
\* 6 only with a Yahoo Finance client that is available, scaled to 10 points
\* and rounded to 2 decimals
ScoreOf(in) ==
    LET score == MentionScore(in.mentioned)
                 + BusinessScore(in.description)
                 + RevenueScore(in.revenue)
                 + SectorScore(in.sector)
                 + (IF in.yahoo_available THEN MomentumScore(in.hist) ELSE 0)
                 + (IF in.yahoo_available
                    THEN DividendScore(in.is_income_thesis, in.dividend) ELSE 0)
    IN  [score |-> score,
         alignment_score |-> RoundDiv(score * 1000, MaxPossibleScore)]

\* ---- the rationale of a scoring
\* A fragment of the rationale: the factor it comes from and its wording,
\* without the numbers formatted into it
Fragment(factor, text) == [factor |-> factor, text |-> text]

\* The rationale _score_business_description returns with its score
BusinessRationale(d) ==
    IF ~d.present THEN "Limited business information available"
    ELSE IF d.keywords = 0 THEN "Minimal business model alignment"
    ELSE IF d.matches * 100 >= 40 * d.keywords THEN "Strong business model alignment"
    ELSE IF d.matches * 100 >= 25 * d.keywords THEN "High business model alignment"
    ELSE IF d.matches * 100 >= 15 * d.keywords THEN "Meaningful business model alignment"
    ELSE IF d.matches * 100 >= 8 * d.keywords THEN "Moderate business model alignment"
    ELSE IF d.matches * 100 >= 4 * d.keywords THEN "Limited business model alignment"
    ELSE "Minimal business model alignment"

\* The rationale _calculate_momentum_score returns with its score
MomentumRationale(h) ==
    CASE h.kind \in {"none", "short"} -> "Insufficient price history"
      [] h.kind = "error" -> "Momentum calculation error"
      [] OTHER -> IF h.high - h.low = 0 THEN "No price movement"
                  ELSE "Price momentum"

\* The rationale _score_dividend_quality returns with its score
DividendRationale(is_income_thesis, v) ==
    IF ~is_income_thesis THEN ""
    ELSE CASE v.kind = "none"  -> "No dividend payments"
           [] v.kind = "error" -> ""
           [] OTHER -> "Dividend quality"

\* "; ".join(rationale_parts) if rationale_parts else "Limited alignment
\* found": the fragments in the order joined, or the fixed rationale alone
JoinRationale(rationale_parts) ==
    IF rationale_parts # <<>> THEN rationale_parts
    ELSE <<Fragment("none", "Limited alignment found")>>

\* score_alignment: rationale_parts as the six factors append to it
AlignmentRationale_WithoutScoreTests(in) ==
    JoinRationale(
        (IF in.mentioned
         THEN <<Fragment("mention", "Explicitly mentioned in thesis")>> ELSE <<>>)
        \o <<Fragment("business", BusinessRationale(in.description))>>
        \o <<Fragment("revenue", "~N% revenue exposure estimated")>>
        \o <<Fragment("sector", "Industry sector alignment")>>
        \o (IF in.yahoo_available /\ MomentumRationale(in.hist) # ""
            THEN <<Fragment("momentum", MomentumRationale(in.hist))>> ELSE <<>>)
        \o (IF in.yahoo_available
               /\ DividendRationale(in.is_income_thesis, in.dividend) # ""
            THEN <<Fragment("dividend",
                            DividendRationale(in.is_income_thesis, in.dividend))>>
            ELSE <<>>))
AlignmentRationale(in) ==
    JoinRationale(
        (IF in.mentioned
         THEN <<Fragment("mention", "Explicitly mentioned in thesis")>> ELSE <<>>)
        \o (IF BusinessRationale(in.description) # ""
            THEN <<Fragment("business", BusinessRationale(in.description))>> ELSE <<>>)
        \o (IF RevenueScore(in.revenue) > 0
            THEN <<Fragment("revenue", "~N% revenue exposure estimated")>> ELSE <<>>)
        \o (IF SectorScore(in.sector) > 0
            THEN <<Fragment("sector", "Industry sector alignment")>> ELSE <<>>)
        \o (IF in.yahoo_available /\ MomentumScore(in.hist) > 0
                                  /\ MomentumRationale(in.hist) # ""
            THEN <<Fragment("momentum", MomentumRationale(in.hist))>> ELSE <<>>)
        \o (IF in.yahoo_available
               /\ DividendScore(in.is_income_thesis, in.dividend) > 0
               /\ DividendRationale(in.is_income_thesis, in.dividend) # ""
            THEN <<Fragment("dividend",
                            DividendRationale(in.is_income_thesis, in.dividend))>>
            ELSE <<>>))

\* The inputs of a scoring
Descriptions ==
    {[present |-> FALSE, keywords |-> 0, matches |-> 0]}
    \cup {[present |-> TRUE, keywords |-> k, matches |-> m] :
            k \in {0}, m \in {0}}
    \cup {[present |-> TRUE, keywords |-> 12, matches |-> m] :
            m \in {0, 1, 2, 5}}

Revenues ==
    {[theme |-> FALSE, exposure_pct |-> 0]}
    \cup {[theme |-> TRUE, exposure_pct |-> e] : e \in {8, 60, 95}}

NoHist == [kind |-> "none"]
Histories ==
    {NoHist, [kind |-> "error"], [kind |-> "short"],
     [kind |-> "series", len |-> 250, last |-> 100, high |-> 100, low |-> 100,
      avg_50d |-> 100, avg_200d |-> 100]}
    \cup {[kind |-> "series", len |-> 100, last |-> l, high |-> 120,
            low |-> 80, avg_50d |-> 100, avg_200d |-> 100] : l \in {80, 93, 120}}
    \cup {[kind |-> "series", len |-> 250, last |-> l, high |-> 120,
            low |-> 80, avg_50d |-> a, avg_200d |-> 100] :
            l \in {80, 93, 120}, a \in {103, 101, 99, 90}}

NoDividendData == [kind |-> "none"]
DividendData ==
    {NoDividendData, [kind |-> "error"]}
    \cup {[kind |-> "data", dividend_yield |-> y, count |-> 4,
            oldest |-> 20, newest |-> 20] : y \in {0 - 100, 0, 250, 500}}
    \cup {[kind |-> "data", dividend_yield |-> y, count |-> 8,
            oldest |-> g[1], newest |-> g[2]] :
            y \in {0, 250, 350, 500},
            g \in {<<20, 23>>, <<100, 107>>, <<100, 101>>, <<20, 20>>, <<0, 5>>}}

\* ---- the scorer on texts
\* A text is the set of phrases it is made of.  str.lower() on the phrases
\* used here:
LowerCase ==
    [p \in {"AI Infrastructure", "Defense Spending", "Quality Compounders",
            "NVIDIA Corporation", "Arlington Systems", "Data Center", "GPU",
            "AI", "NVDA", "XYZ", "Semiconductors", "Aerospace & Defense",
            "Military"} |->
        CASE p = "AI Infrastructure"   -> "ai infrastructure"
          [] p = "Defense Spending"    -> "defense spending"
          [] p = "Quality Compounders" -> "quality compounders"
          [] p = "NVIDIA Corporation"  -> "nvidia corporation"
          [] p = "Arlington Systems"   -> "arlington systems"
          [] p = "Data Center"         -> "data center"
          [] p = "GPU"                 -> "gpu"
          [] p = "AI"                  -> "ai"
          [] p = "NVDA"                -> "nvda"
          [] p = "XYZ"                 -> "xyz"
          [] p = "Semiconductors"      -> "semiconductors"
          [] p = "Aerospace & Defense" -> "aerospace & defense"
          [] OTHER                     -> "military"]

Lower(p) == IF p \in DOMAIN LowerCase THEN LowerCase[p] ELSE p

TextLower(text) == {Lower(p) : p \in text}

\* The keywords of the scorer that are proper substrings of a lower-case
\* phrase used here
PartsOf(p) ==
    CASE p = "ai infrastructure"   -> {"ai", "infrastructure"}
      [] p = "defense spending"    -> {"defense"}
      [] p = "nvidia corporation"  -> {"nvidia"}
      [] p = "semiconductors"      -> {"semiconductor"}
      [] p = "aerospace & defense" -> {"aerospace", "defense"}
      [] OTHER                     -> {}

\* "kw in text" on a lower-case text
In(kw, text) == \E p \in text : kw = p \/ kw \in PartsOf(p)

AnyIn(kws, text) == \E kw \in kws : In(kw, text)

\* json.dumps(thesis): the keys and the values of the thesis
ThesisJson(thesis) == {"id", "title", "summary"} \cup thesis.title \cup thesis.summary

\* _mentioned_in_thesis: security.ticker.upper() in json.dumps(thesis).upper();
\* upper-casing both sides compares as lower-casing both sides does
MentionedInThesis(security, thesis) ==
    In(Lower(security.ticker), TextLower(ThesisJson(thesis)))

\* (thesis.get('title', '') + ' ' + thesis.get('summary', '')).lower()
ThesisText(thesis) == TextLower(thesis.title \cup thesis.summary)

\* _get_company_details without an Alpha Vantage client: the fields of the
\* security object
CompanyDetails(security) ==
    [ticker |-> security.ticker, name |-> security.name,
     description |-> security.description, sector |-> security.sector,
     industry |-> security.industry]

\* _score_business_description: the keyword list the thesis text selects,
\* in the order the code extends it ('data center' is in two of the lists)
BusinessKeywords(thesis_text) ==
    (IF AnyIn({"ai", "artificial intelligence"}, thesis_text)
     THEN <<"ai", "artificial intelligence", "machine learning", "gpu",
            "data center", "cloud", "neural">> ELSE <<>>)
    \o (IF AnyIn({"semiconductor", "chip"}, thesis_text)
        THEN <<"semiconductor", "chip", "processor", "fabrication", "wafer">>
        ELSE <<>>)
    \o (IF In("infrastructure", thesis_text)
        THEN <<"infrastructure", "data center", "colocation", "hosting",
               "connectivity">> ELSE <<>>)
    \o (IF AnyIn({"power", "energy", "utility"}, thesis_text)
        THEN <<"power", "energy", "utility", "electric", "generation",
               "transmission">> ELSE <<>>)
    \o (IF AnyIn({"defense", "military"}, thesis_text)
        THEN <<"defense", "military", "aerospace", "weapons", "combat">>
        ELSE <<>>)
    \o (IF In("china", thesis_text)
        THEN <<"china", "chinese", "asia", "export">> ELSE <<>>)
    \o (IF AnyIn({"inflation", "commodity"}, thesis_text)
        THEN <<"commodity", "gold", "copper", "lithium", "mining", "resources">>
        ELSE <<>>)
    \o (IF AnyIn({"housing", "real estate"}, thesis_text)
        THEN <<"housing", "residential", "apartment", "reit", "multifamily",
               "rental">> ELSE <<>>)

\* The input of BusinessScore for a company and a thesis
BusinessInput(details, thesis) ==
    LET keywords    == BusinessKeywords(ThesisText(thesis))
        description == TextLower(details.description)
    IN  [present |-> details.description # {},
         keywords |-> Len(keywords),
         matches |-> Cardinality({i \in DOMAIN keywords :
                                     In(keywords[i], description)})]

\* _estimate_revenue_exposure: the first theme of theme_keywords with a
\* keyword in the thesis text, "none" without one
PrimaryTheme(thesis_text) ==
    IF AnyIn({"ai", "artificial intelligence", "data center", "gpu"}, thesis_text)
    THEN "ai_infrastructure"
    ELSE IF AnyIn({"semiconductor", "chip"}, thesis_text) THEN "semiconductor"
    ELSE IF AnyIn({"power", "utility", "energy", "electric"}, thesis_text)
    THEN "power"
    ELSE IF AnyIn({"defense", "military", "aerospace"}, thesis_text)
    THEN "defense"
    ELSE IF AnyIn({"real estate", "reit", "housing"}, thesis_text)
    THEN "real_estate"
    ELSE IF AnyIn({"china", "chinese"}, thesis_text) THEN "china"
    ELSE IF AnyIn({"commodity", "mining", "copper", "lithium", "gold"}, thesis_text)
    THEN "commodities"
    ELSE "none"

\* _estimate_revenue_exposure: exposure_pct by theme and company
ExposurePct(theme, name, desc, sector) ==
    CASE theme = "ai_infrastructure" ->
           IF In("nvidia", name) \/ In("nvda", desc) THEN 85
           ELSE IF In("amd", name) \/ In("advanced micro", name) THEN 60
           ELSE IF In("data center", desc) /\ In("reit", sector) THEN 75
           ELSE IF In("semiconductor", sector)
                   /\ AnyIn({"gpu", "ai", "accelerator"}, desc) THEN 70
           ELSE IF In("semiconductor", sector) THEN 40
           ELSE IF In("cloud", desc) \/ In("azure", desc) THEN 35
           ELSE IF In("utility", sector) /\ In("data center", desc) THEN 25
           ELSE IF In("utility", sector) THEN 8
           ELSE 15
      [] theme = "semiconductor" ->
           IF In("fabrication", desc) \/ In("foundry", desc) THEN 90
           ELSE IF In("lithography", desc) \/ In("asml", name) THEN 95
           ELSE IF In("semiconductor", sector) THEN 80
           ELSE IF In("equipment", desc) /\ In("semiconductor", desc) THEN 85
           ELSE 20
      [] theme = "defense" ->
           IF In("defense", sector) \/ In("aerospace", sector) THEN 70
           ELSE IF In("military", desc) THEN 60
           ELSE IF In("government", desc) /\ In("contractor", desc) THEN 50
           ELSE 15
      [] theme = "power" ->
           IF In("renewable", desc) \/ In("clean energy", desc) THEN 80
           ELSE IF In("utility", sector) \/ In("electric", sector) THEN 90
           ELSE IF In("power generation", desc) THEN 85
           ELSE IF In("natural gas", desc) /\ In("lng", desc) THEN 75
           ELSE 30
      [] theme = "real_estate" ->
           IF In("reit", sector) THEN 95
           ELSE IF In("residential", desc) \/ In("multifamily", desc) THEN 85
           ELSE IF In("homebuilder", desc) \/ In("housing", desc) THEN 90
           ELSE 25
      [] theme = "china" ->
           IF In("china", desc) \/ In("chinese", desc) THEN 80
           ELSE IF In("asia", desc) \/ In("hong kong", desc) THEN 60
           ELSE 20
      [] theme = "commodities" ->
           IF In("mining", desc) \/ In("miner", desc) THEN 90
           ELSE IF AnyIn({"copper", "lithium", "gold", "silver"}, desc) THEN 85
           ELSE IF In("resources", desc) \/ In("materials", sector) THEN 70
           ELSE 15
      [] OTHER -> 20

\* The input of RevenueScore for a company and a thesis; without a theme the
\* code returns (1.0, 20.0)
RevenueInput(details, thesis) ==
    LET theme == PrimaryTheme(ThesisText(thesis))
    IN  [theme |-> theme # "none",
         exposure_pct |-> ExposurePct(theme, TextLower(details.name),
                                      TextLower(details.description),
                                      TextLower(details.sector))]

\* _score_sector_alignment: the theme detected in the thesis text
SectorTheme(thesis_text) ==
    IF AnyIn({"ai", "data center", "gpu", "semiconductor"}, thesis_text)
    THEN "ai_infrastructure"
    ELSE IF AnyIn({"semiconductor", "chip"}, thesis_text) THEN "semiconductor"
    ELSE IF AnyIn({"power", "utility", "energy", "electric"}, thesis_text)
    THEN "power_energy"
    ELSE IF AnyIn({"defense", "military"}, thesis_text) THEN "defense"
    ELSE IF AnyIn({"real estate", "housing", "reit"}, thesis_text)
    THEN "real_estate"
    ELSE IF AnyIn({"bank", "financial", "credit", "private equity"}, thesis_text)
    THEN "financial"
    ELSE IF AnyIn({"china", "chinese"}, thesis_text) THEN "china_tech"
    ELSE IF AnyIn({"commodity", "mining", "copper", "lithium", "gold"}, thesis_text)
    THEN "commodities"
    ELSE "none"

\* sector_matches: the perfect, good and related sectors of a theme
SectorLists(theme) ==
    CASE theme = "ai_infrastructure" ->
           [perfect |-> {"semiconductors", "semiconductor", "technology hardware",
                         "data centers", "reits"},
            good |-> {"software", "technology", "electric utilities", "utilities"},
            related |-> {"communications", "telecommunications"}]
      [] theme = "semiconductor" ->
           [perfect |-> {"semiconductors", "semiconductor", "semiconductor equipment"},
            good |-> {"technology hardware", "electronics"},
            related |-> {"materials", "industrial"}]
      [] theme = "power_energy" ->
           [perfect |-> {"electric utilities", "utilities", "renewable energy",
                         "independent power"},
            good |-> {"oil & gas", "energy", "power generation"},
            related |-> {"industrial", "infrastructure"}]
      [] theme = "defense" ->
           [perfect |-> {"aerospace & defense", "defense", "military"},
            good |-> {"industrial", "aerospace"},
            related |-> {"technology", "communications"}]
      [] theme = "real_estate" ->
           [perfect |-> {"reits", "real estate", "residential", "homebuilders"},
            good |-> {"construction", "building materials"},
            related |-> {"financial", "mortgage"}]
      [] theme = "financial" ->
           [perfect |-> {"banks", "financial services", "insurance",
                         "asset management"},
            good |-> {"credit", "lending", "investment"},
            related |-> {"real estate", "fintech"}]
      [] theme = "china_tech" ->
           [perfect |-> {"technology", "internet", "e-commerce", "software"},
            good |-> {"telecommunications", "media", "semiconductors"},
            related |-> {"consumer", "automotive"}]
      [] OTHER ->
           [perfect |-> {"mining", "metals & mining", "gold", "materials"},
            good |-> {"basic materials", "resources", "oil & gas"},
            related |-> {"energy", "industrial"}]

\* The input of SectorScore for a company and a thesis
SectorInput(details, thesis) ==
    LET theme  == SectorTheme(ThesisText(thesis))
        lists  == SectorLists(theme)
        fields == TextLower(details.sector) \cup TextLower(details.industry)
    IN  IF theme = "none" THEN "no_theme"
        ELSE IF AnyIn(lists.perfect, fields) THEN "perfect"
        ELSE IF AnyIn(lists.good, fields) THEN "good"
        ELSE IF AnyIn(lists.related, fields) THEN "related"
        ELSE "none"

\* score_alignment of a scorer without Alpha Vantage and Yahoo Finance
\* clients, on a security and a thesis
ScoreOnText(security, thesis) ==
    LET details == CompanyDetails(security)
        in == [mentioned |-> MentionedInThesis(security, thesis),
               description |-> BusinessInput(details, thesis),
               revenue |-> RevenueInput(details, thesis),
               sector |-> SectorInput(details, thesis),
               yahoo_available |-> FALSE, hist |-> NoHist,
               is_income_thesis |-> FALSE, dividend |-> NoDividendData]
        out == ScoreOf(in)
    IN  [in |-> in, score |-> out.score, alignment_score |-> out.alignment_score]

\* The securities and theses scored
ScenarioSecurities ==
    { [ticker |-> "NVDA", name |-> {"NVIDIA Corporation"},
       description |-> {"Data Center", "GPU", "AI"},
       sector |-> {"Semiconductors"}, industry |-> {"Semiconductors"}],
      [ticker |-> "NVDA", name |-> {"NVIDIA Corporation"},
       description |-> {"Data Center", "GPU", "AI", "machine learning", "cloud"},
       sector |-> {"Semiconductors"}, industry |-> {}],
      [ticker |-> "AI", name |-> {"Arlington Systems"},
       description |-> {"Military"},
       sector |-> {"Aerospace & Defense"}, industry |-> {}],
      [ticker |-> "XYZ", name |-> {"XYZ"}, description |-> {},
       sector |-> {}, industry |-> {}],
      [ticker |-> "XYZ", name |-> {"XYZ"}, description |-> {"cloud"},
       sector |-> {"software"}, industry |-> {}] }

ScenarioTheses ==
    { [id |-> ThesisId, title |-> {t}, summary |-> sm] :
        t \in {"AI Infrastructure", "Defense Spending", "Quality Compounders"},
        sm \in {{}, {"chip"}, {"NVDA"}, {"china"}, {"gold"}, {"housing"},
                {"energy"}} }

\* The otherwise identical thesis whose summary names the ticker
NamingTicker(thesis, ticker) ==
    [thesis EXCEPT !.summary = @ \cup {ticker}]

\* score_alignment on a security and a thesis, and on the same security and
\* the thesis naming its ticker
ScoreScenario ==
    /\ ~last_scenario.called /\ ~last_score.called
    /\ \E security \in ScenarioSecurities, thesis \in ScenarioTheses :
          last_scenario' =
              [called |-> TRUE, security |-> security, thesis |-> thesis,
               plain |-> ScoreOnText(security, thesis),
               naming |-> ScoreOnText(security,
                                      NamingTicker(thesis, security.ticker))]
    /\ UNCHANGED <<clock, ticks, utc_offset, last_score>>
    /\ UNCHANGED <<limiterVars, storeVars, pureVars, holdingVars, runVars, workerVars>>

\* One call of score_alignment; the function keeps no state, so one call per
\* behaviour covers every input
ScoreAlignment ==
    /\ ~last_score.called /\ ~last_scenario.called
    /\ \E mentioned \in BOOLEAN, description \in Descriptions,
          revenue \in Revenues, sector \in SectorMatches,
          yahoo_available \in BOOLEAN, hist \in Histories,
          is_income_thesis \in BOOLEAN, dividend \in DividendData :
          LET in == [mentioned |-> mentioned, description |-> description,
                     revenue |-> revenue, sector |-> sector,
                     yahoo_available |-> yahoo_available, hist |-> hist,
                     is_income_thesis |-> is_income_thesis,
                     dividend |-> dividend]
              out == ScoreOf(in)
          IN  /\ (~yahoo_available => hist = NoHist /\ dividend = NoDividendData)
              /\ (~is_income_thesis => dividend = NoDividendData)
              /\ last_score' = [called |-> TRUE, in |-> in, score |-> out.score,
                                alignment_score |-> out.alignment_score,
                                alignment_rationale |-> AlignmentRationale(in)]
    /\ UNCHANGED <<clock, ticks, utc_offset, last_scenario>>
    /\ UNCHANGED <<limiterVars, storeVars, pureVars, holdingVars, runVars, workerVars>>

\* ---- portrec/background_worker.run_worker
\* _get_discovery_tickers(thesis)[:max_securities] for the queued thesis
DiscoveryTickers == <<"AAA">>

\* time.sleep(poll_interval)
PollInterval == 60

\* The top of the loop: SELECT ... WHERE status = 'pending' LIMIT 1.  With a
\* row the worker goes on to analyze_thesis; nothing marks the task as taken.
\* Without one it sleeps for poll_interval.
WorkerPoll(w) ==
    /\ worker_pc[w] = "poll"
    /\ IF task_status = "pending"
       THEN /\ worker_pc' = [worker_pc EXCEPT ![w] = "analyze"]
            /\ worker_todo' = [worker_todo EXCEPT ![w] = DiscoveryTickers]
            /\ UNCHANGED <<clock, ticks>>
       ELSE /\ ticks < MaxAdvances
            /\ clock' = clock + PollInterval
            /\ ticks' = ticks + 1
            /\ UNCHANGED <<worker_pc, worker_todo>>
    /\ UNCHANGED <<utc_offset, task_status>>
    /\ UNCHANGED <<limiterVars, storeVars, pureVars, holdingVars, runVars, scoreVars>>

\* One pass of the loop of analyze_thesis in worker w; after the last ticker
\* the worker is about to mark the task
WorkerAnalyze(w) ==
    /\ worker_pc[w] = "analyze"
    /\ worker_todo[w] # <<>>
    /\ AnalyzeTicker(Head(worker_todo[w]))
    /\ worker_todo' = [worker_todo EXCEPT ![w] = Tail(@)]
    /\ worker_pc' = [worker_pc EXCEPT
                        ![w] = IF Tail(worker_todo[w]) = <<>> THEN "complete"
                               ELSE "analyze"]
    /\ UNCHANGED <<clock, ticks, utc_offset, task_status, cycles, last_load>>
    /\ UNCHANGED <<limiterVars, pureVars, holdingVars, runVars, scoreVars>>

\* UPDATE pending_research SET status = 'completed' WHERE id = ?
WorkerComplete(w) ==
    /\ worker_pc[w] = "complete"
    /\ task_status' = "completed"
    /\ worker_pc' = [worker_pc EXCEPT ![w] = "poll"]
    /\ UNCHANGED <<clock, ticks, utc_offset, worker_todo>>
    /\ UNCHANGED <<limiterVars, storeVars, pureVars, holdingVars, runVars, scoreVars>>

\* fetch_etf_holdings and save_etf_holdings for one ETF, as every caller
\* pairs them: "holdings = fetch_etf_holdings(sym); if holdings:
\* save_etf_holdings(sym, holdings, source="yahoo")"
SyncHoldings(etf) ==
    /\ cycles < MaxCycles
    /\ \E df \in HoldingFrames :
          LET holdings == FetchEtfHoldings(df)
              saved    == SaveEtfHoldings(securities, etf_holdings, etf,
                                          holdings, clock)
          IN  IF holdings # <<>>
              THEN /\ securities' = saved.securities
                   /\ etf_holdings' = saved.etf_holdings
                   /\ last_sync' = [called |-> TRUE, etf |-> etf,
                                    holdings |-> holdings,
                                    securities_before |-> securities,
                                    holdings_before |-> etf_holdings,
                                    securities_after |-> saved.securities,
                                    holdings_after |-> saved.etf_holdings,
                                    log |-> saved.log]
              ELSE UNCHANGED <<securities, etf_holdings, last_sync>>
    /\ cycles' = cycles + 1
    /\ UNCHANGED <<clock, ticks, utc_offset, thesis_alignments, last_cycle, last_load>>
    /\ UNCHANGED <<limiterVars, pureVars, runVars, workerVars, scoreVars>>

\* ---- backfill_etf_full.main
\* sorted() on a set of symbols
SymbolOrder == <<"AAA", "CC1", "CC2", "EE1", "EE2">>
Sorted(set) == SelectSeq(SymbolOrder, LAMBDA x : x \in set)

\* The Python slice s[lo:hi] for 0 <= lo and 0 <= hi
PySlice(s, lo, hi) ==
    LET top == IF hi < Len(s) THEN hi ELSE Len(s)
    IN  IF top <= lo THEN <<>> ELSE [i \in 1..(top - lo) |-> s[lo + i]]

\* The values of --start and --limit (0 stands for no --limit)
StartArgs == {0, 1, 2}
LimitArgs == {0, 1}

\* The Yahoo answers to one _fetch_security_data of a run
BackfillInfos == {NoInfo} \cup {info \in YahooInfos : info.ok /\ info.price}

\* "if sym in fetched_this_run: continue; data = _fetch_security_data(sym);
\* if data: save_security(data); fetched_this_run.add(sym)".  Yahoo is called
\* when the cache does not answer.
FetchOnce(table, fetched, calls, sym, info, now) ==
    LET cached == LoadSecurityFromDb(table[sym], sym, now)
        data   == FetchSecurityData(table[sym], sym, info, now)
        called == IF cached.found THEN calls
                  ELSE [calls EXCEPT ![sym] = @ + 1]
    IN  IF sym \in fetched
        THEN [securities |-> table, fetched |-> fetched, calls |-> calls]
        ELSE IF data.found
        THEN [securities |-> [table EXCEPT ![sym] = SaveSecurity(data, now)],
              fetched |-> fetched \cup {sym}, calls |-> called]
        ELSE [securities |-> table, fetched |-> fetched, calls |-> called]

\* main up to the start of STEP 1: the ETF rows ORDER BY symbol, "etfs =
\* all_etfs[args.start:]", "if args.limit: etfs = etfs[:args.limit]", "if not
\* etfs: return".  The asset_type column is not followed: EtfList is the
\* answer of the query.
BackfillStart ==
    /\ run_pc = "idle"
    /\ \E start \in StartArgs, limit \in LimitArgs :
          LET from  == PySlice(EtfList, start, Len(EtfList))
              etfs  == IF limit # 0 THEN PySlice(from, 0, limit) ELSE from
          IN  /\ run_etfs' = etfs
              /\ run_pc' = IF etfs = <<>> THEN "done" ELSE "step1"
    /\ fetched_this_run' = {}
    /\ all_constituents_set' = {}
    /\ fetch_calls' = [t \in Symbols |-> 0]
    /\ UNCHANGED <<clock, ticks, utc_offset, run_constituents>>
    /\ UNCHANGED <<limiterVars, storeVars, pureVars, holdingVars, workerVars, scoreVars>>

\* One pass of the STEP 1 loop: the ETF's own data, then fetch_etf_holdings
\* and save_etf_holdings
BackfillEtf ==
    /\ run_pc = "step1"
    /\ run_etfs # <<>>
    /\ \E info \in BackfillInfos, df \in HoldingFrames :
          LET sym      == Head(run_etfs)
              now      == clock
              got      == FetchOnce(securities, fetched_this_run, fetch_calls,
                                    sym, info, now)
              holdings == FetchEtfHoldings(df)
              saved    == SaveEtfHoldings(got.securities, etf_holdings, sym,
                                          holdings, now)
          IN  /\ (LoadSecurityFromDb(securities[sym], sym, now).found
                    => info = NoInfo)
              /\ IF sym \in fetched_this_run
                 THEN UNCHANGED <<securities, fetched_this_run, fetch_calls,
                                  etf_holdings, last_sync, all_constituents_set>>
                 ELSE /\ fetched_this_run' = got.fetched
                      /\ fetch_calls' = got.calls
                      /\ IF holdings # <<>>
                         THEN /\ securities' = saved.securities
                              /\ etf_holdings' = saved.etf_holdings
                              /\ last_sync' = [called |-> TRUE, etf |-> sym,
                                               holdings |-> holdings,
                                               securities_before |-> got.securities,
                                               holdings_before |-> etf_holdings,
                                               securities_after |-> saved.securities,
                                               holdings_after |-> saved.etf_holdings,
                                               log |-> saved.log]
                              /\ all_constituents_set' =
                                     all_constituents_set
                                     \cup {holdings[i].symbol : i \in DOMAIN holdings}
                         ELSE /\ securities' = got.securities
                              /\ UNCHANGED <<etf_holdings, last_sync,
                                             all_constituents_set>>
    /\ run_etfs' = Tail(run_etfs)
    /\ UNCHANGED <<clock, ticks, utc_offset, run_pc, run_constituents>>
    /\ UNCHANGED <<thesis_alignments, cycles, last_cycle, last_load>>
    /\ UNCHANGED <<limiterVars, pureVars, workerVars, scoreVars>>

\* After the STEP 1 loop: every constituent_symbol of etf_holdings joins the
\* set, "constituents = sorted(all_constituents_set)"
BackfillCollect ==
    /\ run_pc = "step1"
    /\ run_etfs = <<>>
    /\ all_constituents_set' =
          all_constituents_set \cup {r.constituent_symbol : r \in etf_holdings}
    /\ run_constituents' = Sorted(all_constituents_set')
    /\ run_pc' = "step2"
    /\ UNCHANGED <<clock, ticks, utc_offset, run_etfs, fetched_this_run, fetch_calls>>
    /\ UNCHANGED <<limiterVars, storeVars, pureVars, holdingVars, workerVars, scoreVars>>

\* One pass of the STEP 2 loop
BackfillConstituent ==
    /\ run_pc = "step2"
    /\ run_constituents # <<>>
    /\ \E info \in BackfillInfos :
          LET sym == Head(run_constituents)
              now == clock
              got == FetchOnce(securities, fetched_this_run, fetch_calls,
                               sym, info, now)
          IN  /\ (LoadSecurityFromDb(securities[sym], sym, now).found
                    \/ sym \in fetched_this_run => info = NoInfo)
              /\ securities' = got.securities
              /\ fetched_this_run' = got.fetched
              /\ fetch_calls' = got.calls
    /\ run_constituents' = Tail(run_constituents)
    /\ UNCHANGED <<clock, ticks, utc_offset, run_pc, run_etfs, all_constituents_set>>
    /\ UNCHANGED <<thesis_alignments, cycles, last_cycle, last_load>>
    /\ UNCHANGED <<limiterVars, pureVars, holdingVars, workerVars, scoreVars>>

\* The end of main: "BACKFILL COMPLETE"
BackfillComplete ==
    /\ run_pc = "step2"
    /\ run_constituents = <<>>
    /\ run_pc' = "done"
    /\ UNCHANGED <<clock, ticks, utc_offset, run_etfs, run_constituents,
                   fetched_this_run, all_constituents_set, fetch_calls>>
    /\ UNCHANGED <<limiterVars, storeVars, pureVars, holdingVars, workerVars, scoreVars>>

\* A pass of either loop in which save_security raises (sqlite3.Error from
\* connect, execute or commit): no try statement encloses the call in main, so
\* the exception ends the run with the rest of the list unprocessed
BackfillSaveError ==
    /\ run_pc \in {"step1", "step2"}
    /\ LET todo == IF run_pc = "step1" THEN run_etfs ELSE run_constituents
       IN  /\ todo # <<>>
           /\ Head(todo) \notin fetched_this_run
           /\ \E info \in BackfillInfos :
                 LET sym    == Head(todo)
                     now    == clock
                     cached == LoadSecurityFromDb(securities[sym], sym, now)
                     data   == FetchSecurityData(securities[sym], sym, info, now)
                 IN  /\ (cached.found => info = NoInfo)
                     /\ data.found
                     /\ fetch_calls' = IF cached.found THEN fetch_calls
                                       ELSE [fetch_calls EXCEPT ![sym] = @ + 1]
    /\ run_pc' = "aborted"
    /\ UNCHANGED <<clock, ticks, utc_offset, run_etfs, run_constituents,
                   fetched_this_run, all_constituents_set>>
    /\ UNCHANGED <<limiterVars, storeVars, pureVars, holdingVars, workerVars, scoreVars>>

\* Days pass between two runs against the same database.
DaySteps == {3 * SecondsPerDay, 4 * SecondsPerDay}

DaysPass ==
    /\ ticks < MaxAdvances
    /\ \E d \in DaySteps : clock' = clock + d
    /\ ticks' = ticks + 1
    /\ UNCHANGED utc_offset
    /\ UNCHANGED limiterVars
    /\ UNCHANGED storeVars
    /\ UNCHANGED extVars

\* AutonomousEquityAnalyst._load_security_from_db(t), called once
LoadSecurity(t) ==
    /\ ~last_load.called
    /\ last_load' = [called |-> TRUE, ticker |-> t, now |-> clock,
                     row |-> securities[t],
                     result |-> LoadSecurityFromDb(securities[t], t, clock)]
    /\ UNCHANGED <<clock, ticks, utc_offset, securities, thesis_alignments, cycles,
                   last_cycle>>
    /\ UNCHANGED limiterVars
    /\ UNCHANGED extVars

\* ---- the merges as functions of a record and a payload
\* Records in any stage of enrichment
MergeRecords ==
    { Security("AAA", "Y", NoNum, sector, industry, gics, gics, sic, sic, NULL,
               description, "USD", NoNum, dividend_yield, NoNum) :
        sector \in {NULL, "Y"}, industry \in {NULL, "Y"}, gics \in {NULL, "Y"},
        sic \in {NULL, "M"}, description \in {NULL, "", "Y"},
        dividend_yield \in {NoNum, <<0>>, <<250000>>} }

\* Overviews with a zero and with a percentage DividendYield as well
MergeOverviews ==
    AVOverviews \cup
    { [ok |-> TRUE, raised |-> FALSE, Sector |-> "A", Industry |-> NULL,
       Description |-> "A", DividendYield |-> [kind |-> "number", v |-> dy]] :
        dy \in {0, 20000} }

\* _enrich_with_massive or _enrich_with_alpha_vantage applied to a record, and
\* applied again to the result with the same payload
MergeTwice ==
    /\ ~last_merge.called
    /\ \E security \in MergeRecords :
        \/ \E details \in MassiveDetails :
              LET once == EnrichWithMassive(security, details)
              IN  last_merge' = [called |-> TRUE, provider |-> "massive",
                                 before |-> security, once |-> once,
                                 twice |-> EnrichWithMassive(once, details)]
        \/ \E overview \in MergeOverviews :
              LET once == EnrichWithAlphaVantage(security, overview)
              IN  last_merge' = [called |-> TRUE, provider |-> "alpha_vantage",
                                 before |-> security, once |-> once,
                                 twice |-> EnrichWithAlphaVantage(once, overview)]
    /\ UNCHANGED <<clock, ticks, utc_offset>>
    /\ UNCHANGED limiterVars
    /\ UNCHANGED <<last_yield, last_cap>>
    /\ UNCHANGED storeVars
    /\ UNCHANGED <<holdingVars, runVars, workerVars, scoreVars>>

\* ---- the one-time cleanup scripts
\* cleanup_data_formatting: "s_lower in ASSET_CLASS_VALUES", of the sector
\* values the writers store
IsAssetClass(sector) == sector \in {"equity", "EQUITY"}

\* cleanup_data_formatting.cleanup on one row: the dividend yield below 0.1 is
\* scaled, the currency upper-cased, and gics_sector, gics_industry,
\* asset_class, sector and industry are rewritten from sector and industry
CleanupDataFormatting(row) ==
    IF ~row.exists THEN row
    ELSE LET dy == row.dividend_yield
             is_class == ~Falsy(row.sector) /\ IsAssetClass(row.sector)
             asset_class == IF is_class THEN Upper(row.sector) ELSE NULL
             gics_sector == IF ~Falsy(row.sector) /\ ~is_class THEN row.sector ELSE NULL
             gics_industry == IF Falsy(row.industry) THEN NULL ELSE row.industry
         IN  [row EXCEPT
                 !.dividend_yield = IF dy # NoNum /\ 0 < dy[1] /\ dy[1] < 10000
                                    THEN <<dy[1] * 100>> ELSE dy,
                 !.currency = IF Falsy(row.currency) THEN row.currency
                              ELSE Upper(row.currency),
                 !.gics_sector = gics_sector,
                 !.gics_industry = gics_industry,
                 !.asset_class = asset_class,
                 !.sector = PyOr(gics_sector, asset_class),
                 !.industry = gics_industry]

\* Provider dividend yields, in hundred-thousandths: None, 0, the fractions
\* from 0.00001 up, 0.025, 0.05, the values around 0.1, and percentages
YieldInputs ==
    {NoNum} \cup {<<v>> : v \in (0..120) \cup {2500, 5000, 9999, 10000, 10001, 250000}}

\* One dividend yield from yfinance to the row: fetched and saved, loaded from
\* the cache and saved again, then cleaned up
YieldPath ==
    /\ ~last_yield.called /\ ~last_cap.called
    /\ \E v \in YieldInputs :
        LET now     == clock
            info    == [ok |-> TRUE, sector |-> "Y", industry |-> "Y", summary |-> "Y",
                        currency |-> "usd", price |-> TRUE, history |-> TRUE,
                        marketCap |-> NoNum, dividendYield |-> v]
            fetched == FetchFromYahoo("AAA", info, now)
            saved   == SaveSecurity(fetched, now)
            cached  == LoadSecurityFromDb(saved, "AAA", now)
            resaved == SaveSecurity(cached, now)
            cleaned == CleanupDataFormatting(resaved)
        IN  last_yield' = [called |-> TRUE, input |-> v,
                           once |-> NormalizeDividendYield(v),
                           from_cache |-> cached.found,
                           fetched |-> fetched.dividend_yield,
                           saved |-> saved.dividend_yield,
                           resaved |-> resaved.dividend_yield,
                           cleaned |-> cleaned.dividend_yield]
    /\ UNCHANGED <<clock, ticks, utc_offset>>
    /\ UNCHANGED limiterVars
    /\ UNCHANGED storeVars
    /\ UNCHANGED <<last_merge, last_cap>>
    /\ UNCHANGED <<holdingVars, runVars, workerVars, scoreVars>>

\* A market_cap of the securities table as a decimal number m * 10^e of dollars
Dec(m, e) == [m |-> m, e |-> e]

Pow10(n) == [k \in 0..9 |-> CASE k = 0 -> 1 [] k = 1 -> 10 [] k = 2 -> 100 [] k = 3 -> 1000 [] k = 4 -> 10000 [] k = 5 -> 100000 [] k = 6 -> 1000000 [] k = 7 -> 10000000 [] k = 8 -> 100000000 [] OTHER -> 1000000000][n]

\* "mc < 1e6" for a positive mc
Below1e6(mc) == mc.e < 6 /\ mc.m < Pow10(6 - mc.e)

\* cleanup_market_cap.cleanup on one row: the value it leaves and whether it
\* counted the row as updated
CleanupMarketCap(mc) ==
    IF mc.m <= 0 THEN [market_cap |-> mc, updated |-> FALSE]
    ELSE IF Below1e6(mc) THEN [market_cap |-> Dec(mc.m, mc.e + 6), updated |-> TRUE]
    ELSE [market_cap |-> mc, updated |-> FALSE]

\* Stored market capitalizations from 0.001 to 3.079e15, and 0
StoredCaps ==
    { Dec(m, e) : m \in {0, 1, 2, 5, 15, 424, 999, 3079}, e \in (0 - 3)..12 }

\* cleanup_market_cap run twice over a table holding one market_cap
CleanupTwice ==
    /\ ~last_yield.called /\ ~last_cap.called
    /\ \E mc \in StoredCaps :
        LET run1 == CleanupMarketCap(mc)
            run2 == CleanupMarketCap(run1.market_cap)
        IN  last_cap' = [called |-> TRUE, market_cap |-> mc, run1 |-> run1, run2 |-> run2]
    /\ UNCHANGED <<clock, ticks, utc_offset>>
    /\ UNCHANGED limiterVars
    /\ UNCHANGED storeVars
    /\ UNCHANGED <<last_merge, last_yield>>
    /\ UNCHANGED <<holdingVars, runVars, workerVars, scoreVars>>

\* ------------------------------------------------------------ construction
\* The instants a limiter is constructed at: shortly before midnight.
StartTimes == {SecondsPerDay - 30, SecondsPerDay - 100}

\* The time_window values a RateLimiter is constructed with (default 60).
TimeWindows == {30, 60}

NoRateLimiter ==
    /\ max_calls = 0 /\ time_window = 0 /\ call_times = <<>>
    /\ rl_returned = <<>> /\ rl_recorded = <<>> /\ rl_last = NoCall

NoAlphaVantage ==
    /\ calls_per_minute = 0 /\ calls_per_day = 0 /\ minute_calls = <<>>
    /\ daily_calls = <<>> /\ current_date = 0
    /\ av_issued = <<>> /\ av_last = NoCall /\ av_return = "None"

\* RateLimiter.__init__(max_calls, time_window)
InitRateLimiter ==
    /\ max_calls \in 1..MaxPerWindow
    /\ time_window \in TimeWindows
    /\ call_times = <<>>
    /\ rl_returned = <<>> /\ rl_recorded = <<>> /\ rl_last = NoCall

\* AlphaVantageRateLimiter.__init__(calls_per_minute, calls_per_day)
InitAlphaVantage ==
    /\ calls_per_minute \in 1..MaxPerWindow
    /\ calls_per_day \in 1..MaxPerDay
    /\ minute_calls = <<>>
    /\ daily_calls = <<>>
    /\ current_date = DateOf(LocalTime(clock))
    /\ av_issued = <<>> /\ av_last = NoCall /\ av_return = "None"

\* One limiter is under observation in a run: a RateLimiter or the
\* AlphaVantageClient with its AlphaVantageRateLimiter.
InitLimiter ==
    /\ clock \in StartTimes
    /\ ticks = 0
    /\ utc_offset = 0
    /\ \/ InitRateLimiter /\ NoAlphaVantage
       \/ InitAlphaVantage /\ NoRateLimiter
    /\ EmptyStore
    /\ IdleExt

NextLimiter ==
    \/ Tick
    \/ RLWaitIfNeeded
    \/ AVGetCompanyOverview

SpecLimiter == InitLimiter /\ [][NextLimiter]_vars

\* The time zones a host may run in: UTC-5, UTC, UTC+10
UtcOffsets == {0 - 5 * 3600, 0, 10 * 3600}

\* A fresh database (init_database) used by enrichment cycles and ETFDB
\* scrapes over several days, on a host in UTC; the limiters are followed in
\* SpecLimiter and the host's time zone in SpecLoad.
Init ==
    /\ clock = SecondsPerDay
    /\ ticks = 0
    /\ utc_offset = 0
    /\ NoRateLimiter /\ NoAlphaVantage
    /\ EmptyStore
    /\ IdleExt

Next ==
    \/ \E t \in Tickers : EnrichAndSave(t)
    \/ \E t \in Tickers : EtfdbUpsert(t)
    \/ DaysPass

Spec == Init /\ [][Next]_vars

\* The cache read as a function of the stored row and the current time.
\* The instant the read happens at, and the ages of the rows it may find.
LoadNow == 30 * SecondsPerDay
RowAges == { STALENESS_DAYS * SecondsPerDay + 3 * 3600,
             STALENESS_DAYS * SecondsPerDay + 1,
             STALENESS_DAYS * SecondsPerDay,
             STALENESS_DAYS * SecondsPerDay - 1,
             STALENESS_DAYS * SecondsPerDay - 4 * 3600,
             SecondsPerDay,
             0 - 3600 }
StampFormats == {"full", "iso", "date", "bad", "empty", "null"}

\* Rows as the writers leave them: with or without descriptive fields, with
\* either, both or none of the price fields, stamped in any format
LoadRows ==
    { Row(name, NoNum, text, text, text, text, NULL, NULL, NULL, text, "USD",
          IF price THEN <<"Y", LoadNow - age>> ELSE NoNum, NoNum,
          IF perf THEN <<"Y", LoadNow - age>> ELSE NoNum,
          Stamp(fmt, LoadNow - age)) :
        name \in {"Y"}, text \in {NULL, "Y"}, price \in BOOLEAN, perf \in BOOLEAN,
        fmt \in StampFormats, age \in RowAges }

InitLoad ==
    /\ clock = LoadNow
    /\ ticks = 0
    /\ utc_offset \in UtcOffsets
    /\ NoRateLimiter /\ NoAlphaVantage
    /\ \E row \in LoadRows \cup {NoRow} :
          securities = [t \in Symbols |-> IF t \in Tickers THEN row ELSE NoRow]
    /\ thesis_alignments = <<>>
    /\ cycles = 0
    /\ last_cycle = NoCall
    /\ last_load = NoCall
    /\ IdleExt

NextLoad == \E t \in Tickers : LoadSecurity(t)

SpecLoad == InitLoad /\ [][NextLoad]_vars

\* The merges as functions: no store, one merge applied once and twice
\* A row saved by save_security from a full Yahoo answer at time t
FullRow(symbol, t) ==
    SaveSecurity(FetchFromYahoo(symbol,
                                CHOOSE info \in YahooInfos : info.ok /\ info.price,
                                t), t)

\* An ETF row as the ETFDB scraper leaves it
ScrapedRow(symbol, item, t) ==
    SaveToSecurities(NoRow, ParseApiRow(symbol, item, t), t)

\* The holdings an earlier run may have stored
EarlierHoldings ==
    { {},
      SaveEtfHoldings([t \in Symbols |-> NoRow], {}, "EE1",
                      FetchEtfHoldings(<< [symbol |-> "CC2", name |-> "Y",
                                           pct |-> 8] >>),
                      SecondsPerDay - 3600).etf_holdings }

\* The database a backfill run starts on: every ETF has a row, scraped from
\* ETFDB (with or without a YTD return) or saved by an earlier run within the hour (fresh); a constituent has
\* a fresh row, a placeholder (when an earlier run stored it as a holding) or
\* none
InitBackfill ==
    /\ clock = SecondsPerDay
    /\ ticks = 0
    /\ utc_offset = 0
    /\ NoRateLimiter
    /\ NoAlphaVantage
    /\ thesis_alignments = <<>>
    /\ cycles = 0
    /\ last_cycle = NoCall
    /\ last_load = NoCall
    /\ last_merge = NoCall
    /\ last_yield = NoCall
    /\ last_cap = NoCall
    /\ last_sync = NoCall
    /\ IdleRun
    /\ IdleWorkers
    /\ last_score = NoCall
    /\ last_scenario = NoCall
    /\ etf_holdings \in EarlierHoldings
    /\ \E fresh \in SUBSET (Symbols \ Tickers), item \in EtfdbItems :
          securities =
              [t \in Symbols |->
                  IF t \in fresh THEN FullRow(t, SecondsPerDay - 3600)
                  ELSE IF \E i \in DOMAIN EtfList : EtfList[i] = t
                  THEN ScrapedRow(t, item, SecondsPerDay - 3600)
                  ELSE IF \E r \in etf_holdings : r.constituent_symbol = t
                  THEN PlaceholderRow("Y", SecondsPerDay - 3600)
                  ELSE NoRow]

\* A database whose ETFs were scraped from ETFDB and where some constituents
\* already have a full row; holdings are then synced, and the scraper may run
\* again on the ETF that is also a holding
InitHoldings ==
    /\ clock = SecondsPerDay
    /\ ticks = 0
    /\ utc_offset = 0
    /\ NoRateLimiter
    /\ NoAlphaVantage
    /\ thesis_alignments = <<>>
    /\ cycles = 0
    /\ last_cycle = NoCall
    /\ last_load = NoCall
    /\ IdleExt
    /\ \E full \in SUBSET Constituents, item \in EtfdbItems :
          securities =
              [t \in Symbols |->
                  IF t \in full THEN FullRow(t, SecondsPerDay - 3600)
                  ELSE IF \E i \in DOMAIN EtfList : EtfList[i] = t
                  THEN ScrapedRow(t, item, SecondsPerDay - 3600)
                  ELSE NoRow]

\* A fresh securities database, one research task queued (INSERT INTO
\* pending_research (thesis_id) VALUES ('1')) and two workers started on it
InitWorkers ==
    /\ clock = SecondsPerDay
    /\ ticks = 0
    /\ utc_offset = 0
    /\ NoRateLimiter /\ NoAlphaVantage
    /\ EmptyStore
    /\ last_merge = NoCall
    /\ last_yield = NoCall
    /\ last_cap = NoCall
    /\ etf_holdings = {}
    /\ last_sync = NoCall
    /\ IdleRun
    /\ last_score = NoCall
    /\ last_scenario = NoCall
    /\ task_status = "pending"
    /\ worker_pc = [w \in Workers |-> "poll"]
    /\ worker_todo = [w \in Workers |-> <<>>]

NextWorkers ==
    \/ \E w \in Workers : WorkerPoll(w)
    \/ \E w \in Workers : WorkerAnalyze(w)
    \/ \E w \in Workers : WorkerComplete(w)

SpecWorkers == InitWorkers /\ [][NextWorkers]_vars

NextHoldings ==
    \/ \E i \in DOMAIN EtfList : SyncHoldings(EtfList[i])
    \/ EtfdbUpsert("EE2")

SpecHoldings == InitHoldings /\ [][NextHoldings]_vars

NextBackfill ==
    \/ BackfillStart
    \/ BackfillEtf
    \/ BackfillCollect
    \/ BackfillConstituent
    \/ BackfillComplete
    \/ BackfillSaveError

SpecBackfill == InitBackfill /\ [][NextBackfill]_vars

InitMerge ==
    /\ clock = SecondsPerDay
    /\ ticks = 0
    /\ utc_offset = 0
    /\ NoRateLimiter /\ NoAlphaVantage
    /\ EmptyStore
    /\ IdleExt

NextMerge == MergeTwice

\* A scoring of any security against any thesis
InitScore ==
    /\ clock = SecondsPerDay
    /\ ticks = 0
    /\ utc_offset = 0
    /\ NoRateLimiter /\ NoAlphaVantage
    /\ EmptyStore
    /\ IdleExt

NextScore ==
    \/ ScoreAlignment
    \/ ScoreScenario

SpecScore == InitScore /\ [][NextScore]_vars

SpecMerge == InitMerge /\ [][NextMerge]_vars

\* One value through the normalisation path or through the cleanup script
InitCleanup ==
    /\ clock = SecondsPerDay
    /\ ticks = 0
    /\ utc_offset = 0
    /\ NoRateLimiter /\ NoAlphaVantage
    /\ EmptyStore
    /\ IdleExt

NextCleanup ==
    \/ YieldPath
    \/ CleanupTwice

SpecCleanup == InitCleanup /\ [][NextCleanup]_vars

\* ------------------------------------------------------------------ claims
Last(s) == s[Len(s)]

\* C1: for RateLimiter(max_calls = N, time_window = W), after any sequence of
\* wait_if_needed calls no window of W seconds ending at a recorded call
\* holds more than N recorded timestamps, and the timestamp recorded for each
\* call is the time at which that call returned.
C1_RLWindowBound ==
    max_calls > 0 =>
        /\ rl_recorded = rl_returned
        /\ \A i \in DOMAIN rl_recorded :
              CountIn(rl_recorded, rl_recorded[i] - time_window, rl_recorded[i])
                  <= max_calls

\* C1 witness: a call found the window full, slept, and the window ending at
\* its timestamp again holds N calls.
C1_Witness ==
    /\ max_calls > 0
    /\ rl_last.called /\ rl_last.slept # <<>>
    /\ Len(rl_recorded) > max_calls
    /\ CountIn(rl_recorded, Last(rl_recorded) - time_window, Last(rl_recorded))
          = max_calls

\* C2: measured at the real times at which the admitted calls of the
\* AlphaVantageRateLimiter returned, no 60-second window ending at an admitted
\* call holds more than calls_per_minute admitted calls.
C2_AVIssuedWindowBound ==
    calls_per_minute > 0 =>
        \A i \in DOMAIN av_issued :
            CountIn(av_issued, av_issued[i] - MinuteWindow, av_issued[i])
                <= calls_per_minute

\* The number of admitted calls that returned on calendar date d
IssuedOn(d) ==
    Cardinality({i \in DOMAIN av_issued : DateOf(LocalTime(av_issued[i])) = d})

\* C3: the AlphaVantageRateLimiter never admits more than calls_per_day calls
\* within one calendar day, and once calls_per_day calls of the day are
\* recorded every further call on that day raises.
C3_AVDailyCap ==
    calls_per_minute > 0 =>
        /\ \A i \in DOMAIN av_issued : IssuedOn(DateOf(LocalTime(av_issued[i]))) <= calls_per_day
        /\ (av_last.called /\ av_last.date = av_last.stored_date
              /\ Len(av_last.daily_before) >= calls_per_day) => av_last.raised

\* C4: the daily history is reset exactly when the calendar date of the call
\* differs from the stored date: such a call sees an empty daily history and
\* is admitted, however recent the first call of the previous day; a call on
\* the stored date sees the history unchanged and, if it is full, raises.
C4_AVDailyReset ==
    av_last.called =>
        /\ av_last.date # av_last.stored_date =>
              av_last.daily_seen = <<>> /\ ~av_last.raised
        /\ av_last.date = av_last.stored_date =>
              /\ av_last.daily_seen = av_last.daily_before
              /\ Len(av_last.daily_before) >= calls_per_day => av_last.raised

\* C4 witness: an exhausted limiter admits the first call after midnight, less
\* than 24 hours after the first call of the previous day.
C4_Witness ==
    /\ av_last.called
    /\ av_last.date # av_last.stored_date
    /\ Len(av_last.daily_before) >= calls_per_day
    /\ av_last.now - Head(av_last.daily_before) < SecondsPerDay
    /\ ~av_last.raised

\* C5: a wait_if_needed call that finds the per-minute window full (and, for
\* the Alpha Vantage limiter, the daily history not full) does not raise; it
\* sleeps W - (now - oldest) + 1 seconds once, returns no earlier than that,
\* and has recorded the call.
C5_RLFull ==
    rl_last.called /\ Len(PopLeftWhileOld(rl_last.before, rl_last.now - time_window)) >= max_calls
C5_AVFull ==
    /\ av_last.called
    /\ Len(PopLeftWhileOld(av_last.minute_before, av_last.now - MinuteWindow))
          >= calls_per_minute
    /\ Len(av_last.daily_seen) < calls_per_day

C5_MinuteQuotaNeverAnError ==
    /\ C5_RLFull =>
        LET oldest == Head(PopLeftWhileOld(rl_last.before, rl_last.now - time_window))
            expect == time_window - (rl_last.now - oldest) + 1
        IN  /\ ~rl_last.raised
            /\ rl_last.slept = <<expect>>
            /\ rl_last.returned_at >= rl_last.now + expect
            /\ Len(call_times) > 0 /\ Last(call_times) = rl_last.recorded
            /\ Len(rl_recorded) = Len(rl_returned)
    /\ C5_AVFull =>
        LET oldest == Head(PopLeftWhileOld(av_last.minute_before, av_last.now - MinuteWindow))
            expect == MinuteWindow - (av_last.now - oldest) + 1
        IN  /\ ~av_last.raised
            /\ av_last.slept = <<expect>>
            /\ av_last.returned_at >= av_last.now + expect
            /\ Len(minute_calls) > 0 /\ Last(minute_calls) = av_last.now
            /\ Len(daily_calls) > 0 /\ Last(daily_calls) = av_last.now
            /\ Len(av_issued) > 0 /\ Last(av_issued) = av_last.returned_at

\* C5 witness: the Alpha Vantage limiter found the minute window full and the
\* call went through after sleeping.
C5_Witness == C5_AVFull /\ av_last.slept # <<>> /\ ~av_last.raised

\* C6: when the daily quota is exhausted, the caller of get_company_overview
\* receives something other than the no-data result None.
C6_DailyQuotaErrorSurfaced ==
    (av_last.called /\ av_last.raised) => av_return # "None"

\* C7: _load_security_from_db returns a record if and only if the row exists,
\* its last_updated reads as an instant at most 7 days before the current time
\* (exactly 7 days is fresh), and current_price or year_performance is
\* non-null; whatever the other columns hold.
C7_CacheReadIffFresh ==
    last_load.called =>
        LET row == last_load.row
            last_updated == IF row.exists THEN ParseLastUpdated(row.last_updated)
                            ELSE <<>>
        IN  last_load.result.found <=>
                /\ row.exists
                /\ last_updated # <<>>
                /\ last_load.now - last_updated[1] <= STALENESS_DAYS * SecondsPerDay
                /\ (row.current_price # NoNum \/ row.year_performance # NoNum)

\* The price fields of a record
PriceFields == {"current_price", "year_performance"}

\* C8: whenever _fetch_security_data answers from the cache, every price or
\* performance value it returns was obtained no more than 7 days earlier.
C8_CachedPricesFresh ==
    (last_cycle.called /\ last_cycle.from_cache) =>
        \A f \in PriceFields :
            last_cycle.fetched[f] # NoNum =>
                last_cycle.at - last_cycle.fetched[f][2]
                    <= STALENESS_DAYS * SecondsPerDay

\* The descriptive and classification columns of a row
DescriptiveFields == {"description", "gics_sector", "gics_industry", "sic_code",
                      "sic_description", "asset_class"}

\* C9: an enrichment cycle that saves a ticker (after a cache hit or after a
\* refetch) leaves every descriptive column that was non-null and non-empty
\* in the stored row non-null and non-empty.
C9_DescriptiveFieldsPreserved ==
    [][ Len(thesis_alignments') > Len(thesis_alignments) =>
          \A t \in Tickers :
              securities[t].exists =>
                  \A f \in DescriptiveFields :
                      ~Falsy(securities[t][f]) => ~Falsy(securities'[t][f]) ]_vars

\* Every field set before a merge has the same value after it
KeptByMerge(before, after) ==
    /\ \A f \in TextColumns : ~Falsy(before[f]) => after[f] = before[f]
    /\ \A f \in NumColumns : before[f] # NoNum => after[f] = before[f]

\* C10: merging Massive/Polygon and then Alpha Vantage into a record leaves
\* every field that was non-null and non-empty before the merge (sector and
\* industry included) with the same value.
C10_FillOnlyNull ==
    (last_cycle.called /\ last_cycle.found) =>
        /\ KeptByMerge(last_cycle.fetched, last_cycle.after_massive)
        /\ KeptByMerge(last_cycle.after_massive, last_cycle.after_av)

\* C11: merging the same secondary-provider payload into a record twice gives
\* the same record as merging it once, for _enrich_with_massive and for
\* _enrich_with_alpha_vantage.
C11_MergeIdempotent ==
    last_merge.called => last_merge.twice = last_merge.once

\* C11 witness: a merge that filled the sector of a record from the payload,
\* and a second merge of the same payload that changed nothing.
C11_Witness ==
    /\ last_merge.called
    /\ Falsy(last_merge.before.sector) /\ ~Falsy(last_merge.once.sector)
    /\ last_merge.twice = last_merge.once

\* C12: when the Massive/Polygon or the Alpha Vantage call raises or returns
\* no data, the cycle still merges the other provider and saves the record,
\* and the failed provider's merge leaves every field as it was.
C12_ProviderFailureIsLocal ==
    (last_cycle.called /\ last_cycle.found) =>
        /\ last_cycle.massive_failed => last_cycle.after_massive = last_cycle.fetched
        /\ last_cycle.av_failed => last_cycle.after_av = last_cycle.after_massive
        /\ last_cycle.row_after.exists
        /\ \A f \in DescriptiveFields :
              last_cycle.row_after[f] = last_cycle.after_av[f]
        /\ last_cycle.aligned = 1

\* C12 witness: Massive/Polygon failed, Alpha Vantage then filled a field, and
\* the record was saved with it.
C12_Witness ==
    /\ last_cycle.called /\ last_cycle.found
    /\ last_cycle.massive_failed /\ ~last_cycle.av_failed
    /\ last_cycle.after_massive.description # ""
    /\ Falsy(last_cycle.after_massive.gics_industry)
    /\ last_cycle.after_av.gics_industry = "A"
    /\ last_cycle.row_after.gics_industry = "A"

\* C13: a cycle whose cache check misses and whose Yahoo fetch fails or is
\* empty writes nothing: the securities table and the alignments are as they
\* were, and the cache check for the ticker still misses.
C13_FailedFetchNotCached ==
    (last_cycle.called /\ last_cycle.yahoo_failed) =>
        /\ ~last_cycle.found
        /\ last_cycle.row_after = last_cycle.row_before
        /\ last_cycle.aligned = 0
        /\ ~LoadSecurityFromDb(last_cycle.row_after, last_cycle.ticker,
                               last_cycle.at).found

\* C13 witness: the ticker's row had gone stale, Yahoo failed, and the row is
\* still the stale one.
C13_Witness ==
    /\ last_cycle.called /\ last_cycle.yahoo_failed /\ ~last_cycle.found
    /\ last_cycle.at = clock
    /\ last_cycle.row_after.exists
    /\ last_cycle.row_after.last_updated.t < last_cycle.at

\* C14: in a single backfill run every ticker triggers at most one upstream
\* fetch call, a ticker that is both an ETF and a holding and a ticker whose
\* fetch returns no data included.
C14_AtMostOneFetchPerRun ==
    \A sym \in Symbols : fetch_calls[sym] <= 1

\* The constituents stored for an ETF in a holdings table
StoredConstituents(table, etf) ==
    {r.constituent_symbol : r \in {x \in table : x.etf_symbol = etf}}

\* C15: after save_etf_holdings(E, H) the rows stored for E are exactly the
\* constituents of H; a constituent of an earlier sync that is not in H is no
\* longer stored.
C15_HoldingsAreSnapshot ==
    last_sync.called =>
        StoredConstituents(last_sync.holdings_after, last_sync.etf)
            = {last_sync.holdings[i].symbol : i \in DOMAIN last_sync.holdings}

\* The ranks stored for an ETF
StoredRanks(etf) ==
    {r.holding_rank : r \in {x \in etf_holdings : x.etf_symbol = etf}}

\* C16: for every ETF the holding_rank values of its stored holdings are
\* unique and contiguous 1..N, after any sequence of fetch_etf_holdings and
\* save_etf_holdings calls.
C16_RanksContiguous ==
    \A i \in DOMAIN EtfList :
        StoredRanks(EtfList[i])
            = 1..Cardinality(StoredConstituents(etf_holdings, EtfList[i]))

\* C17: every constituent_symbol of etf_holdings has a securities row; in
\* save_etf_holdings the securities row of a constituent exists when its
\* holding row is written, either from before the call or from a placeholder
\* insert earlier in the log; a securities row that existed before the call is
\* the same after it.
C17_ReferentialCompleteness ==
    /\ \A r \in etf_holdings : securities[r.constituent_symbol].exists
    /\ last_sync.called =>
          /\ \A j \in DOMAIN last_sync.log :
                last_sync.log[j].table = "etf_holdings" =>
                    /\ last_sync.log[j].has_row
                    /\ \/ last_sync.securities_before[last_sync.log[j].symbol].exists
                       \/ \E k \in 1..(j - 1) :
                             /\ last_sync.log[k].table = "securities"
                             /\ last_sync.log[k].symbol = last_sync.log[j].symbol
          /\ \A sym \in Symbols :
                last_sync.securities_before[sym].exists =>
                    last_sync.securities_after[sym] = last_sync.securities_before[sym]

\* A sync that inserted a placeholder for one constituent and found the
\* securities row of another
C17_Witness ==
    /\ last_sync.called
    /\ \E j \in DOMAIN last_sync.log : last_sync.log[j].table = "securities"
    /\ \E i \in DOMAIN last_sync.holdings :
          last_sync.securities_before[last_sync.holdings[i].symbol].exists

\* C18: after any sequence of analyses the thesis_alignments table holds at
\* most one row per (thesis_id, symbol).
C18_AlignmentUniquePerKey ==
    \A i, j \in DOMAIN thesis_alignments :
        (/\ thesis_alignments[i].thesis_id = thesis_alignments[j].thesis_id
         /\ thesis_alignments[i].symbol = thesis_alignments[j].symbol)
            => i = j

\* Every worker is back at the top of its loop and the task is marked
WorkersQuiescent ==
    /\ task_status = "completed"
    /\ \A w \in Workers : worker_pc[w] = "poll"

\* The alignment rows stored for a (thesis, ticker) key
AlignmentRows(thesis_id, t) ==
    {i \in DOMAIN thesis_alignments :
        /\ thesis_alignments[i].thesis_id = thesis_id
        /\ thesis_alignments[i].symbol = t}

\* C19: when two workers process the same task against the same store, under
\* every interleaving the final store holds the row set a single run leaves:
\* one alignment row for each ticker of the thesis that was scored, none
\* twice.
C19_WritersConverge ==
    WorkersQuiescent =>
        \A i \in DOMAIN DiscoveryTickers :
            Cardinality(AlignmentRows(ThesisId, DiscoveryTickers[i])) <= 1

\* C20: for every security, thesis and combination of available optional
\* factors the raw sum of the sub-scores is between 0 and the declared
\* maximum of 14 points, and the alignment score returned is in [0, 10].
C20_ScoreBounds ==
    last_score.called =>
        /\ 0 <= last_score.score /\ last_score.score <= MaxPossibleScore
        /\ 0 <= last_score.alignment_score /\ last_score.alignment_score <= 1000

\* A scoring with momentum and dividend quality available in which every
\* factor gives its maximum: the bound is reached
C20_Witness ==
    /\ last_score.called
    /\ last_score.in.yahoo_available
    /\ MomentumScore(last_score.in.hist) = 200
    /\ DividendScore(last_score.in.is_income_thesis, last_score.in.dividend) = 200
    /\ last_score.score = MaxPossibleScore
    /\ last_score.alignment_score = 1000

\* C21: a thesis whose text contains the literal ticker symbol scores at
\* least as high as the otherwise identical thesis without it.
C21_MentionMonotone ==
    (last_scenario.called
       /\ ~MentionedInThesis(last_scenario.security, last_scenario.thesis))
        => last_scenario.naming.alignment_score
               >= last_scenario.plain.alignment_score

\* The NVDA scenario: ticker NVDA, a name containing 'nvidia', a thesis text
\* containing 'AI Infrastructure', a description containing 'data center',
\* 'GPU' and 'AI', and a sector that matches
NvdaScenario ==
    /\ last_scenario.called
    /\ last_scenario.security.ticker = "NVDA"
    /\ In("nvidia", TextLower(last_scenario.security.name))
    /\ In("ai infrastructure", ThesisText(last_scenario.thesis))
    /\ \A kw \in {"data center", "gpu", "ai"} :
          In(kw, TextLower(last_scenario.security.description))
    /\ last_scenario.plain.in.sector = "perfect"

\* C22: in the NVDA scenario the business description sub-score is 3.0, the
\* revenue exposure is 85% with sub-score 3.0, the raw total is at least 8 of
\* 14 and the rescaled score at least 5.7 of 10.
C22_NvdaScenario ==
    NvdaScenario =>
        /\ BusinessScore(last_scenario.plain.in.description) = 300
        /\ last_scenario.plain.in.revenue.exposure_pct = 85
        /\ RevenueScore(last_scenario.plain.in.revenue) = 300
        /\ last_scenario.plain.score >= 800
        /\ last_scenario.plain.alignment_score >= 570

\* The fallback scenario: no description, no sector, and a thesis in which
\* no theme keyword is detected
FallbackScenario ==
    /\ last_scenario.called
    /\ last_scenario.security.description = {}
    /\ last_scenario.security.sector = {}
    /\ BusinessKeywords(ThesisText(last_scenario.thesis)) = <<>>
    /\ PrimaryTheme(ThesisText(last_scenario.thesis)) = "none"
    /\ SectorTheme(ThesisText(last_scenario.thesis)) = "none"

\* C23: in the fallback scenario the description sub-score is the fallback
\* 0.5, the exposure estimate is 20% with the neutral revenue sub-score 1.0,
\* and the sector sub-score is the neutral default 1.0; none is zero.
C23_FallbackScenario ==
    FallbackScenario =>
        /\ BusinessScore(last_scenario.plain.in.description) = 50
        /\ last_scenario.plain.in.revenue.exposure_pct = 20
        /\ RevenueScore(last_scenario.plain.in.revenue) = 100
        /\ SectorScore(last_scenario.plain.in.sector) = 100
        /\ last_scenario.plain.score
              = MentionScore(last_scenario.plain.in.mentioned) + 250

\* The blank security scored against a thesis without a theme that does not
\* name it
C23_Witness ==
    /\ FallbackScenario
    /\ ~last_scenario.plain.in.mentioned
    /\ last_scenario.plain.score = 250

\* C24: for every provider input v, the dividend yield held after the fetch,
\* stored by save_security, stored again after a cache load and re-save, and
\* left by a cleanup run equals the once-normalised value: 0.025 is stored as
\* 2.5, 2.5 stays 2.5, and no value is multiplied by 100 a second time.
C24_NoDoubleScaling ==
    last_yield.called =>
        /\ last_yield.fetched = last_yield.once
        /\ last_yield.saved = last_yield.once
        /\ last_yield.resaved = last_yield.once
        /\ last_yield.cleaned = last_yield.once

\* C25: in every stored row, sector equals gics_sector when gics_sector is
\* non-null and asset_class otherwise, after any sequence of save_security
\* calls (fresh fetch, cache-hit re-save, enrichment with the SIC fallback) and
\* ETFDB upserts.
C25_SectorDerived ==
    \A t \in Symbols :
        securities[t].exists =>
            securities[t].sector = IF securities[t].gics_sector # NULL
                                   THEN securities[t].gics_sector
                                   ELSE securities[t].asset_class

\* C26: save_to_securities only fills null columns: a column that holds a
\* non-null value in the stored row holds the same value after the upsert.
C26_FillsOnlyNulls ==
    [][\A t \in Tickers :
          EtfdbUpsert(t) /\ securities[t].exists =>
              /\ \A c \in TextColumns :
                    securities[t][c] # NULL => securities'[t][c] = securities[t][c]
              /\ \A c \in NumColumns :
                    securities[t][c] # NoNum => securities'[t][c] = securities[t][c]]_vars

\* C27: one ticker's failure never aborts a batch: when the processing of a
\* ticker fails (here: save_security raises in a backfill loop), every later
\* ticker of the list is still processed, so a run never stops with more than
\* the failed ticker left.
C27_FailureDoesNotAbort ==
    run_pc = "aborted" => Len(run_etfs) + Len(run_constituents) <= 1

\* C28: a secondary provider is called only to fill a gap: when Massive
\* answered in a cycle, one of the fields it supplies (sic_code,
\* sic_description, description) was empty in the record it was called for,
\* and when Alpha Vantage answered, one of gics_sector, gics_industry,
\* description, dividend_yield was empty in the record at that point.
C28_ProvidersOnlyFillGaps ==
    last_cycle.called /\ last_cycle.found =>
        /\ ~last_cycle.massive_failed =>
              \/ Falsy(last_cycle.fetched.sic_code)
              \/ Falsy(last_cycle.fetched.sic_description)
              \/ Falsy(last_cycle.fetched.description)
        /\ ~last_cycle.av_failed =>
              \/ Falsy(last_cycle.after_massive.gics_sector)
              \/ Falsy(last_cycle.after_massive.gics_industry)
              \/ Falsy(last_cycle.after_massive.description)
              \/ NoDividend(last_cycle.after_massive.dividend_yield)

\* The factors of a scoring in factor order, and the sub-score of each
Factors == <<"mention", "business", "revenue", "sector", "momentum", "dividend">>
SubScore(in, factor) ==
    CASE factor = "mention"  -> MentionScore(in.mentioned)
      [] factor = "business" -> BusinessScore(in.description)
      [] factor = "revenue"  -> RevenueScore(in.revenue)
      [] factor = "sector"   -> SectorScore(in.sector)
      [] factor = "momentum" -> IF in.yahoo_available THEN MomentumScore(in.hist) ELSE 0
      [] OTHER -> IF in.yahoo_available
                  THEN DividendScore(in.is_income_thesis, in.dividend) ELSE 0

Contributing(in) == SelectSeq(Factors, LAMBDA f : SubScore(in, f) # 0)

\* C29: the rationale of score_alignment holds, in factor order, one fragment
\* for each factor with a non-zero sub-score and no other fragment; it is
\* 'Limited alignment found' if and only if no factor has a non-zero
\* sub-score.
C29_RationaleMatchesFactors ==
    last_score.called =>
        LET r == last_score.alignment_rationale
            c == Contributing(last_score.in)
        IN  /\ c # <<>> => /\ Len(r) = Len(c)
                           /\ \A i \in DOMAIN c : r[i].factor = c[i]
            /\ (r = <<Fragment("none", "Limited alignment found")>>) <=> (c = <<>>)

\* A scoring with Yahoo Finance available in which the ticker is not
\* mentioned and the price history is missing while the dividend factor
\* scores: the rationale has the business, revenue, sector and dividend
\* fragments only
C29_Witness ==
    /\ last_score.called
    /\ last_score.in.yahoo_available
    /\ ~last_score.in.mentioned
    /\ last_score.in.hist.kind = "none"
    /\ DividendScore(last_score.in.is_income_thesis, last_score.in.dividend) > 0
    /\ Len(last_score.alignment_rationale) = 4
    /\ last_score.alignment_rationale[4].factor = "dividend"

\* C30: the market-cap cleanup multiplies every positive value below 1e6 by
\* 1e6, leaves a value of 1e6 or more unchanged, and a second run updates no
\* row, whatever positive value was stored.
C30_CleanupIdempotent ==
    last_cap.called /\ last_cap.market_cap.m > 0 =>
        /\ Below1e6(last_cap.market_cap) =>
               last_cap.run1 = [market_cap |-> Dec(last_cap.market_cap.m,
                                                   last_cap.market_cap.e + 6),
                                updated |-> TRUE]
        /\ ~Below1e6(last_cap.market_cap) =>
               last_cap.run1 = [market_cap |-> last_cap.market_cap, updated |-> FALSE]
        /\ ~last_cap.run2.updated

====
